---- MODULE Spec2Model ----
(***************************************************************************)
(* Model of the asset control panel (Django app "assets"): the scan bundle *)
(* upload form, the lshw parser, the ingestion view and the drive status   *)
(* view, over a record store of Asset, HardwareScan, Drive and AssetTouch  *)
(* rows.  Requests of two logged-in users are interleaved at the           *)
(* granularity of their database statements.                               *)
(***************************************************************************)
EXTENDS Integers, Sequences, FiniteSets, TLC

(***************************************************************************)
(* JSON values as json.loads returns them, tagged by their Python type.    *)
(* Text on which the code works character by character (serial, uuid) is   *)
(* a sequence of one-character strings; other text is a plain string.      *)
(***************************************************************************)
JNull == [t |-> "null"]
JStr(s) == [t |-> "str", s |-> s]
JInt(n) == [t |-> "int", n |-> n]
JList(xs) == [t |-> "list", xs |-> xs]
JObj(kv) == [t |-> "obj", kv |-> kv]
EmptyKv == [k \in {} |-> JNull]

IsDict(v) == v.t = "obj"
IsStr(v) == v.t = "str"
HasKey(o, k) == k \in DOMAIN o.kv
\* dict.get(k): None when the key is absent
Get(o, k) == IF k \in DOMAIN o.kv THEN o.kv[k] ELSE JNull
\* Python truthiness
Truthy(v) ==
    CASE v.t = "null" -> FALSE
      [] v.t = "str"  -> Len(v.s) # 0
      [] v.t = "int"  -> v.n # 0
      [] v.t = "list" -> Len(v.xs) # 0
      [] v.t = "obj"  -> DOMAIN v.kv # {}
\* a or b
Or(a, b) == IF Truthy(a) THEN a ELSE b

Digits == <<"0", "1", "2", "3", "4", "5", "6", "7", "8", "9">>
RECURSIVE IntToStr(_)
IntToStr(n) ==
    IF n < 0 THEN "-" \o IntToStr(-n)
    ELSE IF n < 10 THEN Digits[n + 1]
    ELSE IntToStr(n \div 10) \o Digits[(n % 10) + 1]
\* str(v) of the values an asset id takes in the model
PyStr(v) ==
    CASE v.t = "str"  -> v.s
      [] v.t = "int"  -> IntToStr(v.n)
      [] v.t = "null" -> "None"
      [] OTHER        -> "<repr>"

(***************************************************************************)
(* Character strings                                                       *)
(***************************************************************************)
Whitespace == {" ", "\t", "\n", "\r"}
Upper == <<"A", "B", "C", "D", "E", "F", "G", "H", "I", "J", "K", "L", "M",
           "N", "O", "P", "Q", "R", "S", "T", "U", "V", "W", "X", "Y", "Z">>
Lower == <<"a", "b", "c", "d", "e", "f", "g", "h", "i", "j", "k", "l", "m",
           "n", "o", "p", "q", "r", "s", "t", "u", "v", "w", "x", "y", "z">>
LowerChar(c) ==
    IF \E i \in 1..26 : Upper[i] = c
    THEN Lower[CHOOSE i \in 1..26 : Upper[i] = c]
    ELSE c
StrLower(s) == [i \in 1..Len(s) |-> LowerChar(s[i])]
RECURSIVE LStrip(_)
LStrip(s) ==
    IF s # <<>> /\ Head(s) \in Whitespace THEN LStrip(Tail(s)) ELSE s
RECURSIVE RStrip(_)
RStrip(s) ==
    IF s # <<>> /\ s[Len(s)] \in Whitespace
    THEN RStrip(SubSeq(s, 1, Len(s) - 1))
    ELSE s
StrStrip(s) == RStrip(LStrip(s))

(***************************************************************************)
(* lshw_parser.py                                                          *)
(***************************************************************************)
\* The stack of _walk_nodes: pop the last entry, skip it unless it is a
\* dict, yield it, push its children when they are a list.
RECURSIVE WalkStack(_)
WalkStack(stack) ==
    IF stack = <<>> THEN <<>>
    ELSE LET n    == stack[Len(stack)]
             rest == SubSeq(stack, 1, Len(stack) - 1)
         IN  IF ~IsDict(n) THEN WalkStack(rest)
             ELSE LET kids == Get(n, "children")
                  IN  <<n>> \o WalkStack(IF kids.t = "list" THEN rest \o kids.xs
                                         ELSE rest)
\* a walk that stops below the children of the root
WalkNodesTwoLevels(raw) ==
    IF ~IsDict(raw) THEN <<>>
    ELSE <<raw>> \o (IF Get(raw, "children").t = "list"
                     THEN SelectSeq(Get(raw, "children").xs, IsDict) ELSE <<>>)
WalkNodes(raw) == IF ~IsDict(raw) THEN <<>> ELSE WalkStack(<<raw>>)

MinSerialLen == 6
BadSerials == {
    <<"u", "n", "k", "n", "o", "w", "n">>,
    <<"n", "o", "n", "e">>,
    <<"n", "/", "a">>,
    <<"n", "a">>,
    <<"n", "u", "l", "l">>,
    <<"0">>,
    <<"0", "0", "0", "0", "0", "0", "0">>,
    <<"0", "0", "0", "0", "0", "0", "0", "0">>,
    <<"0", "0", "0", "0", "0", "0", "0", "0", "0">>,
    <<"n", "o", "t", " ", "s", "p", "e", "c", "i", "f", "i", "e", "d">>}
\* a check that compares with the deny-list without lower-casing
LooksLikeSerialKeepsCase(s) ==
    IF Len(s) = 0 THEN FALSE
    ELSE LET st == StrStrip(s)
         IN  IF Len(st) < MinSerialLen THEN FALSE
             ELSE st \notin BadSerials
\* _looks_like_serial, on the characters of a str
LooksLikeSerial(s) ==
    IF Len(s) = 0 THEN FALSE
    ELSE LET st == StrStrip(s)
         IN  IF Len(st) < MinSerialLen THEN FALSE
             ELSE StrLower(st) \notin BadSerials

SerialClasses == {"system", "bus", "motherboard", "bridge", "chassis"}
ClassOf(n) == Get(n, "class")
ClassIs(n, c) == ClassOf(n).t = "str" /\ ClassOf(n).s = c
PlausibleStr(v) == IsStr(v) /\ LooksLikeSerial(v.s)
\* the candidates one walked node contributes, in order
NodeCandidates(n) ==
    (IF (\E c \in SerialClasses : ClassIs(n, c)) /\ PlausibleStr(Get(n, "serial"))
     THEN <<Get(n, "serial").s>> ELSE <<>>)
    \o
    (IF ClassIs(n, "system") /\ PlausibleStr(Get(n, "uuid"))
     THEN <<Get(n, "uuid").s>> ELSE <<>>)
RECURSIVE FlatCandidates(_)
FlatCandidates(nodes) ==
    IF nodes = <<>> THEN <<>>
    ELSE NodeCandidates(Head(nodes)) \o FlatCandidates(Tail(nodes))
\* an extraction that returns the candidate found last
ExtractSerialLast(raw) ==
    IF ~IsDict(raw) THEN JNull
    ELSE LET cands ==
                 (IF PlausibleStr(Get(raw, "serial"))
                  THEN <<Get(raw, "serial").s>> ELSE <<>>)
                 \o (IF PlausibleStr(Get(raw, "uuid"))
                     THEN <<Get(raw, "uuid").s>> ELSE <<>>)
                 \o FlatCandidates(WalkNodes(raw))
         IN  IF cands = <<>> THEN JNull ELSE JStr(cands[Len(cands)])
\* extract_serial: the first candidate, or None
ExtractSerial(raw) ==
    IF ~IsDict(raw) THEN JNull
    ELSE LET cands ==
                 (IF PlausibleStr(Get(raw, "serial"))
                  THEN <<Get(raw, "serial").s>> ELSE <<>>)
                 \o (IF PlausibleStr(Get(raw, "uuid"))
                     THEN <<Get(raw, "uuid").s>> ELSE <<>>)
                 \o FlatCandidates(WalkNodes(raw))
         IN  IF cands = <<>> THEN JNull ELSE JStr(cands[1])

(***************************************************************************)
(* Device documents of the model.  Sizes are counted in TiB (2^40 bytes),  *)
(* so that a size beyond the 64-bit column of Drive.capacity_bytes fits    *)
(* the checker's integers.                                                 *)
(***************************************************************************)
SerDiskA == <<"W", "D", "-", "A", "1", "2", "3", "4">>
SerDiskAPadded == <<" ", "W", "D", "-", "A", "1", "2", "3", "4", " ">>
SerZeros == <<"0", "0", "0", "0", "0", "0", "0">>
SerBig == <<"B", "I", "G", "0", "0", "1">>
SerSys == <<"P", "C", "0", "0", "0", "1">>
SerUnknown == <<"U", "n", "k", "n", "o", "w", "n">>

\* 2^63 bytes, the first value a BigIntegerField cannot hold, in TiB
BigIntLimitTiB == 8388608

DiskA ==
    JObj([class |-> JStr("disk"), logicalname |-> JStr("/dev/sda"),
          size |-> JInt(1), product |-> JStr("WDC WD10"),
          serial |-> JStr(SerDiskAPadded)])
\* the same drive seen again under another name and size
DiskAMoved ==
    JObj([class |-> JStr("disk"), logicalname |-> JStr("/dev/sdb"),
          size |-> JInt(2), product |-> JStr("WDC WD10"),
          serial |-> JStr(SerDiskA)])
\* a drive reporting a placeholder serial
DiskNoSerial ==
    JObj([class |-> JStr("disk"), logicalname |-> JStr("/dev/sdb"),
          size |-> JInt(2), description |-> JStr("ATA Disk"),
          serial |-> JStr(SerZeros)])
\* a drive reporting a size of 2^63 bytes
DiskBig ==
    JObj([class |-> JStr("disk"), logicalname |-> JStr("/dev/sdc"),
          size |-> JInt(BigIntLimitTiB), product |-> JStr("RAID LUN"),
          serial |-> JStr(SerBig)])
\* a drive whose serial is a number, not a string
DiskIntSerial ==
    JObj([class |-> JStr("disk"), logicalname |-> JStr("/dev/sdd"),
          size |-> JInt(1), product |-> JStr("USB Stick"),
          serial |-> JInt(12345678)])
\* the drive of DiskNoSerial in a later scan, reporting another placeholder
DiskNoSerialUnknown ==
    JObj([class |-> JStr("disk"), logicalname |-> JStr("/dev/sdb"),
          size |-> JInt(2), description |-> JStr("ATA Disk"),
          serial |-> JStr(SerUnknown)])
Volume ==
    JObj([class |-> JStr("volume"), logicalname |-> JStr("/dev/sda1"),
          size |-> JInt(1), serial |-> JStr(SerDiskA)])

Machine(serial, kids) ==
    JObj([id |-> JStr("computer"), class |-> JStr("system"),
          serial |-> serial,
          children |-> JList(<<
              JObj([id |-> JStr("core"), class |-> JStr("bus"),
                    children |-> JList(kids)])>>)])

Doc1 == Machine(JStr(SerSys), <<DiskNoSerial, JStr("junk"), DiskA>>)
Doc2 == Machine(JStr(SerUnknown), <<Volume, DiskAMoved>>)
DocBig == Machine(JStr(SerSys), <<DiskBig, DiskA>>)
DocIntSerial == Machine(JStr(SerSys), <<DiskIntSerial>>)
Doc3 == Machine(JStr(SerSys), <<DiskNoSerialUnknown, DiskAMoved>>)

\* drives whose serial is blank, absent, too short, or the number 0
DiskBlankSerial ==
    JObj([class |-> JStr("disk"), logicalname |-> JStr("/dev/sde"),
          size |-> JInt(3), product |-> JStr("Blank"),
          serial |-> JStr(<<" ", " ", "\t">>)])
DiskNoSerialKey ==
    JObj([class |-> JStr("disk"), logicalname |-> JStr("/dev/sdf"),
          size |-> JInt(3), product |-> JStr("Card Reader")])
DiskShortSerial ==
    JObj([class |-> JStr("disk"), logicalname |-> JStr("/dev/sdg"),
          size |-> JInt(1), product |-> JStr("Short"),
          serial |-> JStr(<<"a", "b", "c">>)])
DiskZeroSerial ==
    JObj([class |-> JStr("disk"), logicalname |-> JStr("/dev/sdh"),
          size |-> JInt(1), product |-> JStr("Zero"), serial |-> JInt(0)])
\* a drive with several logical names, a size that is text and no model
DiskListName ==
    JObj([class |-> JStr("disk"),
          logicalname |-> JList(<<JStr("/dev/sdi"), JStr("/mnt/usb")>>),
          size |-> JStr("big"), serial |-> JNull])
\* a drive whose product is a number
DiskIntProduct ==
    JObj([class |-> JStr("disk"), logicalname |-> JStr("/dev/sdj"),
          size |-> JInt(1), product |-> JInt(500), serial |-> JStr(SerBig)])
DocSerials ==
    Machine(JNull, <<DiskBlankSerial, DiskNoSerialKey, DiskShortSerial,
                     DiskZeroSerial, DiskListName, DiskA>>)
DocIntProduct == Machine(JStr(SerSys), <<DiskIntProduct>>)
\* a node whose description is a number
DocIntDescription ==
    Machine(JStr(SerSys),
            <<JObj([id |-> JStr("usb"), class |-> JStr("bus"),
                    description |-> JInt(5)]), DiskA>>)
\* a node whose class is a number
DocIntClass ==
    Machine(JStr(SerSys), <<JObj([id |-> JStr("pci"), class |-> JInt(3)]), DiskA>>)
\* documents that lack every expected field
DocChildrenText == JObj([id |-> JStr("computer"), children |-> JStr("none")])
DocEmpty == JObj(EmptyKv)

\* memory nodes; sizes in TiB like the sizes of the drives
MemoryNode(description, size, kids) ==
    JObj([id |-> JStr("memory"), class |-> JStr("memory"),
          description |-> JStr(description), size |-> size,
          children |-> JList(kids)])
Bank(k, size) ==
    JObj([id |-> JStr("bank:" \o k), class |-> JStr("memory"),
          description |-> JStr("DIMM DDR4 Synchronous"),
          slot |-> JStr("DIMM " \o k), size |-> size,
          vendor |-> JStr("Samsung")])
CacheNode ==
    JObj([id |-> JStr("cache:0"), class |-> JStr("memory"),
          description |-> JStr("L1 cache"), size |-> JInt(1)])
\* a system memory total that differs from the sum of its banks
DocSysAndBanks ==
    Machine(JStr(SerSys),
            <<MemoryNode("System Memory", JInt(8), <<Bank("0", JInt(4)),
                                                     Bank("1", JInt(2))>>)>>)
\* banks only: the system memory node reports no size
DocBanks ==
    Machine(JStr(SerSys),
            <<MemoryNode("System Memory", JNull, <<Bank("0", JInt(4)),
                                                   Bank("1", JInt(4)),
                                                   Bank("2", JNull)>>),
              CacheNode>>)
\* neither: a memory node that is no system memory and no bank
DocPlainMemory ==
    Machine(JStr(SerSys), <<MemoryNode("Main Memory", JInt(16), <<>>), CacheNode>>)
\* banks and a plain memory node
DocBanksAndPlain ==
    Machine(JStr(SerSys),
            <<MemoryNode("Main Memory", JInt(16), <<Bank("0", JInt(4))>>)>>)
\* an empty bank and a cache, no size to count
DocNoMemory ==
    Machine(JStr(SerSys),
            <<MemoryNode("System Memory", JNull, <<Bank("0", JNull)>>), CacheNode>>)
\* a system memory node whose size is text
DocSysText ==
    Machine(JStr(SerSys),
            <<MemoryNode("System Memory", JStr("8GiB"), <<Bank("0", JInt(2))>>)>>)

Docs == <<Doc1, Doc2, DocBig, DocIntSerial, Doc3, DocSerials, DocIntProduct,
          DocIntDescription, DocIntClass, DocChildrenText, DocEmpty,
          DocSysAndBanks, DocBanks, DocPlainMemory, DocBanksAndPlain,
          DocNoMemory, DocSysText>>

(***************************************************************************)
(* parse_disks                                                             *)
(***************************************************************************)
DiskModel(n) == Or(Or(Get(n, "product"), Get(n, "description")), JStr(""))
\* a blob that takes the reported serial in as well
DiskBlobWithSerial(n) ==
    <<Get(n, "logicalname"), Get(n, "size"), DiskModel(n), Get(n, "serial")>>
\* the object hashed for a synthetic serial: logical, size and model as read
DiskBlob(n) == <<Get(n, "logicalname"), Get(n, "size"), DiskModel(n)>>

IsStorageNode(n) == ClassIs(n, "disk") \/ ClassIs(n, "volume")
\* a filter that takes the volumes of a disk for disks
DiskNodesWithVolumes(nodes) == SelectSeq(nodes, IsStorageNode)
\* the walked nodes whose class is "disk", in walk order
RECURSIVE DiskNodes(_)
DiskNodes(nodes) ==
    IF nodes = <<>> THEN <<>>
    ELSE (IF ClassIs(Head(nodes), "disk") THEN <<Head(nodes)>> ELSE <<>>)
         \o DiskNodes(Tail(nodes))

RECURSIVE BlobsOf(_)
BlobsOf(docs) ==
    IF docs = <<>> THEN <<>>
    ELSE LET ns == DiskNodes(WalkNodes(Head(docs)))
         IN  [i \in 1..Len(ns) |-> DiskBlob(ns[i])] \o BlobsOf(Tail(docs))
BlobUniverse == BlobsOf(Docs)

HexDigits == <<"0", "1", "2", "3", "4", "5", "6", "7",
               "8", "9", "a", "b", "c", "d", "e", "f">>
SyntheticHexLen == 12
RECURSIVE Pow16(_)
Pow16(k) == IF k = 0 THEN 1 ELSE 16 * Pow16(k - 1)
\* hashlib.sha1(blob).hexdigest()[:12]: a digest that is a function of the
\* blob alone and differs for different blobs, written as 12 hex digits
Sha1Hex12(blob) ==
    LET code == CHOOSE i \in 1..Len(BlobUniverse) :
                    /\ BlobUniverse[i] = blob
                    /\ \A j \in 1..(i - 1) : BlobUniverse[j] # blob
    IN  [k \in 1..SyntheticHexLen |->
            IF SyntheticHexLen - k > 6 THEN "0"
            ELSE HexDigits[((code \div Pow16(SyntheticHexLen - k)) % 16) + 1]]
NoSerialPrefix == <<"N", "O", "S", "E", "R", "I", "A", "L", "-">>

\* a parser that keeps the serial as reported, plausible or not
DiskSerialAsReported(n) ==
    IF IsStr(Get(n, "serial")) THEN StrStrip(Get(n, "serial").s) ELSE <<>>
\* the serial of one disk node: trimmed when a str, replaced when implausible
DiskSerial(n) ==
    LET raw == Get(n, "serial")
        s   == IF IsStr(raw) THEN StrStrip(raw.s) ELSE <<>>
    IN  IF LooksLikeSerial(s) THEN s
        ELSE NoSerialPrefix \o Sha1Hex12(DiskBlob(n))
\* _looks_like_serial(serial or "") calls .strip() on a truthy non-str
DiskRaises(n) == ~IsStr(Get(n, "serial")) /\ Truthy(Get(n, "serial"))
DiskFact(n) ==
    [serial      |-> DiskSerial(n),
     logicalname |-> IF IsStr(Get(n, "logicalname")) THEN Get(n, "logicalname").s
                     ELSE "",
     size_bytes  |-> IF Get(n, "size").t = "int" THEN Get(n, "size") ELSE JNull,
     model       |-> DiskModel(n)]
ParseDisks(raw) ==
    LET ns == DiskNodes(WalkNodes(raw))
    IN  [i \in 1..Len(ns) |-> DiskFact(ns[i])]
ParseDisksRaises(raw) ==
    LET ns == DiskNodes(WalkNodes(raw))
    IN  \E i \in 1..Len(ns) : DiskRaises(ns[i])

\* parse_lshw_json, the part the ingestion reads
ParseLshwJson(data) ==
    [device_serial |-> ExtractSerial(data), disks |-> ParseDisks(data)]

(***************************************************************************)
(* Byte counts beyond the integers of the model: the digits in base 1024,  *)
(* most significant first, none for zero.                                  *)
(***************************************************************************)
Bytes(ds) == [t |-> "bytes", d |-> ds]
RECURSIVE Base1024(_)
Base1024(n) == IF n = 0 THEN <<>> ELSE Base1024(n \div 1024) \o <<n % 1024>>
RECURSIVE Value1024(_)
Value1024(ds) ==
    IF ds = <<>> THEN 0 ELSE 1024 * Value1024(SubSeq(ds, 1, Len(ds) - 1)) + ds[Len(ds)]
\* the bytes of a size the documents count in TiB
BytesOfTiB(n) == IF n = 0 THEN <<>> ELSE Base1024(n) \o <<0, 0, 0, 0>>

(***************************************************************************)
(* format_bytes                                                            *)
(***************************************************************************)
Units == <<"B", "KB", "MB", "GB", "TB">>
\* floor(10 * F) for the fraction F the digits stand for
RECURSIVE Floor10(_)
Floor10(frac) ==
    IF frac = <<>> THEN 0 ELSE (10 * Head(frac) + Floor10(Tail(frac))) \div 1024
\* f"{num:.1f} {unit}": the value rounded to one decimal
FormatOneDecimal(whole, frac, unit) ==
    LET w == Value1024(whole)
        t == IF frac = <<>> THEN 0
             ELSE (10 * Head(frac) + 512 + Floor10(Tail(frac))) \div 1024
    IN  (IF t = 10 THEN IntToStr(w + 1) \o ".0"
         ELSE IntToStr(w) \o "." \o IntToStr(t)) \o " " \o unit
\* a loop that moves to the next unit at 1024 and above 1024 only
RECURSIVE FormatLoopInclusive(_, _, _)
FormatLoopInclusive(whole, frac, units) ==
    IF units = <<>> THEN FormatOneDecimal(whole, frac, "PB")
    ELSE IF Len(whole) <= 1 \/ (whole = <<1, 0>> /\ \A i \in 1..Len(frac) : frac[i] = 0)
    THEN FormatOneDecimal(whole, frac, Head(units))
    ELSE FormatLoopInclusive(SubSeq(whole, 1, Len(whole) - 1),
                             <<whole[Len(whole)]>> \o frac, Tail(units))
\* the loop over the units: return when num < 1024.0, else num /= 1024.0
RECURSIVE FormatLoop(_, _, _)
FormatLoop(whole, frac, units) ==
    IF units = <<>> THEN FormatOneDecimal(whole, frac, "PB")
    ELSE IF Len(whole) <= 1 THEN FormatOneDecimal(whole, frac, Head(units))
    ELSE FormatLoop(SubSeq(whole, 1, Len(whole) - 1),
                    <<whole[Len(whole)]>> \o frac, Tail(units))
\* format_bytes of None or of a non-negative int
FormatBytes(v) ==
    IF v.t = "null" \/ v.d = <<>> THEN "0 B" ELSE FormatLoop(v.d, <<>>, Units)

(***************************************************************************)
(* Text of descriptions, ids and classes                                   *)
(***************************************************************************)
Chars(s) == [i \in 1..Len(s) |-> SubSeq(s, i, i)]
Contains(s, sub) ==
    \E i \in 0..(Len(s) - Len(sub)) : SubSeq(s, i + 1, i + Len(sub)) = sub
\* (n.get(k) or "").lower(), as characters
LowerField(n, k) ==
    IF IsStr(Get(n, k)) THEN StrLower(Chars(Get(n, k).s)) ELSE <<>>
FieldHas(n, k, word) == Contains(LowerField(n, k), Chars(word))
NonStrTruthy(v) == ~IsStr(v) /\ Truthy(v)
RECURSIVE SumSizes(_)
SumSizes(nodes) ==
    IF nodes = <<>> THEN 0
    ELSE (IF Get(Head(nodes), "size").t = "int" THEN Get(Head(nodes), "size").n ELSE 0)
         + SumSizes(Tail(nodes))

(***************************************************************************)
(* extract_basic_hw: the ram entry                                         *)
(***************************************************************************)
\* class "memory" with a truthy size
IsSizedMemory(n) == ClassIs(n, "memory") /\ Truthy(Get(n, "size"))
\* the nodes that set the system memory total: int(size) must succeed
IsSystemMemory(n) ==
    /\ IsSizedMemory(n)
    /\ FieldHas(n, "description", "system memory")
    /\ Get(n, "size").t = "int"
IsCountedMemory(n) == IsSizedMemory(n) /\ ~FieldHas(n, "description", "cache")
\* the last system memory node walked sets the value; 0 when there is none
SystemMemory(raw) ==
    LET ns == SelectSeq(WalkNodes(raw), IsSystemMemory)
    IN  IF ns = <<>> THEN 0 ELSE Get(ns[Len(ns)], "size").n
\* total_bytes of extract_basic_hw, in the unit of the document
RamTotal(raw) ==
    IF SystemMemory(raw) # 0 THEN SystemMemory(raw)
    ELSE SumSizes(SelectSeq(WalkNodes(raw), IsCountedMemory))
\* hw_summary["ram"], None when there is no total
HwRam(raw) ==
    IF ~IsDict(raw) \/ RamTotal(raw) = 0 THEN JNull
    ELSE JStr(FormatBytes(Bytes(BytesOfTiB(RamTotal(raw)))))

(***************************************************************************)
(* extract_basic_hw: the storage entry and the result                      *)
(***************************************************************************)
\* the characters of a serial as one text
RECURSIVE Text(_)
Text(cs) == IF cs = <<>> THEN "" ELSE Head(cs) \o Text(Tail(cs))
\* sep.join(parts)
RECURSIVE Join(_, _)
Join(sep, parts) ==
    IF parts = <<>> THEN ""
    ELSE IF Len(parts) = 1 THEN parts[1]
    ELSE parts[1] \o sep \o Join(sep, Tail(parts))
\* the label of one disk fact: size, model and serial when they are truthy
StorageLabel(d) ==
    Join(" ",
         (IF Truthy(d.size_bytes)
          THEN <<FormatBytes(Bytes(BytesOfTiB(d.size_bytes.n)))>> ELSE <<>>)
         \o (IF Truthy(d.model) THEN <<d.model.s>> ELSE <<>>)
         \o (IF Len(d.serial) = 0 THEN <<>>
             ELSE IF Len(d.serial) >= Len(NoSerialPrefix)
                     /\ SubSeq(d.serial, 1, Len(NoSerialPrefix)) = NoSerialPrefix
             THEN <<"(no serial)">>
             ELSE <<"(SN " \o Text(d.serial) \o ")">>))
HwStorage(raw) ==
    LET disks == ParseDisks(raw)
    IN  IF disks = <<>> THEN JNull
        ELSE JStr(Join(" + ", [i \in 1..Len(disks) |-> StorageLabel(disks[i])]))
\* a result that is a dict also when it has no key
ExtractBasicHwNeverNone(raw) ==
    LET keys == {k \in {"ram"} : HwRam(raw) # JNull}
                \cup {k \in {"storage"} : HwStorage(raw) # JNull}
    IN  JObj([k \in keys |-> IF k = "ram" THEN HwRam(raw) ELSE HwStorage(raw)])
\* extract_basic_hw: the dict of the entries that were set, None when it
\* is empty or raw is no dict
ExtractBasicHw(raw) ==
    LET keys == {k \in {"ram"} : HwRam(raw) # JNull}
                \cup {k \in {"storage"} : HwStorage(raw) # JNull}
    IN  IF ~IsDict(raw) \/ keys = {} THEN JNull
        ELSE JObj([k \in keys |-> IF k = "ram" THEN HwRam(raw) ELSE HwStorage(raw)])
\* .lower() on the description of a sized memory node, the serial of a
\* disk, and the join of a model that is no str
BasicHwNodeRaises(n) ==
    \/ IsSizedMemory(n) /\ NonStrTruthy(Get(n, "description"))
    \/ ClassIs(n, "disk") /\ DiskRaises(n)
    \/ ClassIs(n, "disk") /\ NonStrTruthy(DiskModel(n))
ExtractBasicHwRaises(raw) ==
    LET ns == WalkNodes(raw)
    IN  \E i \in 1..Len(ns) : BasicHwNodeRaises(ns[i])

(***************************************************************************)
(* parse_lshw_json: memory slots and memory total                          *)
(***************************************************************************)
\* a heuristic that takes every memory node for a slot
IsSlotAnyMemory(n) ==
    \/ LowerField(n, "class") = Chars("bank")
    \/ LowerField(n, "class") = Chars("memory")
    \/ FieldHas(n, "id", "bank")
    \/ FieldHas(n, "description", "bank")
\* cls == "bank" or "bank" in nid or "bank" in desc
IsSlot(n) ==
    \/ LowerField(n, "class") = Chars("bank")
    \/ FieldHas(n, "id", "bank")
    \/ FieldHas(n, "description", "bank")
MemorySlot(n) ==
    LET size == Get(n, "size")
    IN  [slot       |-> Or(Or(Or(Get(n, "slot"), Get(n, "id")), Get(n, "description")),
                           JStr("")),
         size_bytes |-> IF size.t = "int" THEN size ELSE JNull,
         size_human |-> IF size.t = "int" /\ size.n # 0
                        THEN JStr(FormatBytes(Bytes(BytesOfTiB(size.n)))) ELSE JNull,
         vendor     |-> Or(Get(n, "vendor"), JStr("")),
         product    |-> Or(Get(n, "product"), JStr("")),
         serial     |-> Or(Or(Get(n, "serial"), Get(n, "serial-number")), JStr(""))]
MemorySlots(data) ==
    LET ns == SelectSeq(WalkNodes(data), IsSlot)
    IN  [i \in 1..Len(ns) |-> MemorySlot(ns[i])]
RECURSIVE SumSlots(_)
SumSlots(slots) ==
    IF slots = <<>> THEN 0
    ELSE (IF Truthy(Head(slots).size_bytes) THEN Head(slots).size_bytes.n ELSE 0)
         + SumSlots(Tail(slots))

\* where the first " " and the first "." of a text are, 0 when there is none
FirstIndex(cs, c) ==
    IF \E i \in 1..Len(cs) : cs[i] = c
    THEN CHOOSE i \in 1..Len(cs) : cs[i] = c /\ \A j \in 1..(i - 1) : cs[j] # c
    ELSE 0
DigitOf(c) == CHOOSE k \in 0..9 : Digits[k + 1] = c
IsDigitText(cs) ==
    cs # <<>> /\ \A i \in 1..Len(cs) : \E k \in 1..10 : Digits[k] = cs[i]
RECURSIVE NatOf(_)
NatOf(cs) ==
    IF cs = <<>> THEN 0 ELSE 10 * NatOf(SubSeq(cs, 1, Len(cs) - 1)) + DigitOf(cs[Len(cs)])
\* the digits of floor(X / 10) for the digits of X; rem is the carry
RECURSIVE DivideBy10(_, _)
DivideBy10(ds, rem) ==
    IF ds = <<>> THEN <<>>
    ELSE <<(rem * 1024 + Head(ds)) \div 10>>
         \o DivideBy10(Tail(ds), (rem * 1024 + Head(ds)) % 10)
RECURSIVE DropLeadingZeros(_)
DropLeadingZeros(ds) ==
    IF ds # <<>> /\ Head(ds) = 0 THEN DropLeadingZeros(Tail(ds)) ELSE ds
\* the multiplier of the unit, as the number of base-1024 digits to shift
UnitExponent(unit) ==
    CASE unit = Chars("KB") -> 1
      [] unit = Chars("MB") -> 2
      [] unit = Chars("GB") -> 3
      [] unit = Chars("TB") -> 4
      [] OTHER -> 0
\* int(float(parts[0]) * multiplier) for a text "W.T UNIT"; None when the
\* text does not parse
RamToBytes(text) ==
    LET cs    == Chars(text)
        sp    == FirstIndex(cs, " ")
        num   == IF sp = 0 THEN cs ELSE SubSeq(cs, 1, sp - 1)
        unit  == IF sp = 0 THEN Chars("GB") ELSE SubSeq(cs, sp + 1, Len(cs))
        dot   == FirstIndex(num, ".")
        whole == IF dot = 0 THEN num ELSE SubSeq(num, 1, dot - 1)
        tenth == IF dot = 0 THEN <<"0">> ELSE SubSeq(num, dot + 1, Len(num))
    IN  IF ~IsDigitText(whole) \/ ~IsDigitText(tenth) \/ Len(tenth) # 1 THEN JNull
        ELSE Bytes(DropLeadingZeros(DivideBy10(
                 Base1024(10 * NatOf(whole) + NatOf(tenth))
                 \o [i \in 1..UnitExponent(unit) |-> 0], 0)))

\* a resolution that asks the slots before the system memory node
MemoryTotalSlotsFirst(data) ==
    IF SumSlots(MemorySlots(data)) # 0
    THEN Bytes(BytesOfTiB(SumSlots(MemorySlots(data))))
    ELSE IF SystemMemory(data) # 0 THEN Bytes(BytesOfTiB(SystemMemory(data)))
    ELSE IF HwRam(data).t = "str" THEN RamToBytes(HwRam(data).s)
    ELSE JNull
\* memory_total_bytes: the system memory node, else the slots, else the ram
\* text of the summary, else None
MemoryTotal(data) ==
    IF SystemMemory(data) # 0 THEN Bytes(BytesOfTiB(SystemMemory(data)))
    ELSE IF SumSlots(MemorySlots(data)) # 0
    THEN Bytes(BytesOfTiB(SumSlots(MemorySlots(data))))
    ELSE IF HwRam(data).t = "str" THEN RamToBytes(HwRam(data).s)
    ELSE JNull

\* the summary parse_lshw_json returns, as far as the model follows it
Summary(data) ==
    [device_serial      |-> ExtractSerial(data),
     disks              |-> ParseDisks(data),
     hw_summary         |-> [ram |-> HwRam(data)],
     memory_slots       |-> MemorySlots(data),
     memory_total_bytes |-> MemoryTotal(data)]

\* the places where parse_lshw_json calls a str method on a value that is
\* not a str, or joins one into the storage label
NodeRaises(n) ==
    \/ ClassIs(n, "disk") /\ DiskRaises(n)
    \/ ClassIs(n, "disk") /\ NonStrTruthy(DiskModel(n))
    \/ ClassIs(n, "multimedia") /\ NonStrTruthy(DiskModel(n))
    \/ NonStrTruthy(Get(n, "class"))
    \/ NonStrTruthy(Get(n, "id"))
    \/ NonStrTruthy(Get(n, "description"))
ParseLshwRaises(data) ==
    LET ns == WalkNodes(data)
    IN  \E i \in 1..Len(ns) : NodeRaises(ns[i])

(***************************************************************************)
(* Scan bundles and uploaded files                                         *)
(***************************************************************************)
SchemaV1 == "motherboard.scan_bundle.v1"
Scanner == JObj([hostname |-> JStr("bench1"), user |-> JStr("tech")])
Meta == JObj([status |-> JStr("ok")])
Envelope(schema, scanner, intake, sources, meta) ==
    JObj([schema |-> schema, generated_at |-> JStr("2024-05-01T10:00:00Z"),
          scanner |-> scanner, intake |-> intake, sources |-> sources,
          meta |-> meta])
Bundle(asset_id, lshw) ==
    Envelope(JStr(SchemaV1), Scanner,
             JObj([asset_id |-> asset_id, tech_name |-> JStr("")]),
             JObj([lshw |-> lshw]), Meta)

\* 5 MB, the default of settings.MAX_LSHW_BYTES
MaxLshwBytes == 5242880
\* An uploaded file: its size in bytes, whether its bytes decode as UTF-8,
\* whether the text is JSON, and then the value json.loads returns with the
\* order in which the text lists the keys of its objects (0 or 1).
JsonFile(data, order) ==
    [present |-> TRUE, size |-> 2048, utf8 |-> TRUE, json |-> TRUE,
     data |-> data, order |-> order]

FileB1 == JsonFile(Bundle(JStr("A1"), Doc1), 0)
FileB1Permuted == JsonFile(Bundle(JStr("A1"), Doc1), 1)
FileB2 == JsonFile(Bundle(JStr("A1"), Doc2), 0)
FileB3 == JsonFile(Bundle(JStr("A1"), Doc3), 0)
FileBig == JsonFile(Bundle(JStr("A1"), DocBig), 0)
FileIntId == JsonFile(Bundle(JInt(7), Doc1), 0)
FileLshwList == JsonFile(Bundle(JStr("A1"), JList(<<JStr("lshw")>>)), 0)
FileLshwEmpty == JsonFile(Bundle(JStr("A1"), JObj(EmptyKv)), 0)
FileIntSerial == JsonFile(Bundle(JStr("A1"), DocIntSerial), 0)
FileWrongSchema ==
    JsonFile(Envelope(JStr("motherboard.scan_bundle.v2"), Scanner,
                      JObj([asset_id |-> JStr("A1")]),
                      JObj([lshw |-> Doc1]), Meta), 0)
FileNoSchema ==
    JsonFile(JObj([generated_at |-> JStr("2024-05-01T10:00:00Z"),
                   scanner |-> Scanner, intake |-> JObj([asset_id |-> JStr("A1")]),
                   sources |-> JObj([lshw |-> Doc1]), meta |-> Meta]), 0)
FileNoGeneratedAt ==
    JsonFile(JObj([schema |-> JStr(SchemaV1),
                   scanner |-> Scanner, intake |-> JObj([asset_id |-> JStr("A1")]),
                   sources |-> JObj([lshw |-> Doc1]), meta |-> Meta]), 0)
FileNoScannerUser ==
    JsonFile(Envelope(JStr(SchemaV1), JObj([hostname |-> JStr("bench1")]),
                      JObj([asset_id |-> JStr("A1")]),
                      JObj([lshw |-> Doc1]), Meta), 0)
FileScannerText ==
    JsonFile(Envelope(JStr(SchemaV1), JStr("bench1"),
                      JObj([asset_id |-> JStr("A1")]),
                      JObj([lshw |-> Doc1]), Meta), 0)
FileEmptyAssetId ==
    JsonFile(Envelope(JStr(SchemaV1), Scanner, JObj([asset_id |-> JStr("")]),
                      JObj([lshw |-> Doc1]), Meta), 0)
FileNoLshw ==
    JsonFile(Envelope(JStr(SchemaV1), Scanner, JObj([asset_id |-> JStr("A1")]),
                      JObj([dmidecode |-> JStr("text")]), Meta), 0)
FileNoMetaStatus ==
    JsonFile(Envelope(JStr(SchemaV1), Scanner, JObj([asset_id |-> JStr("A1")]),
                      JObj([lshw |-> Doc1]), JObj([tool |-> JStr("mb")])), 0)
FileJsonList == JsonFile(JList(<<Bundle(JStr("A1"), Doc1)>>), 0)
FileNotJson ==
    [present |-> TRUE, size |-> 2048, utf8 |-> TRUE, json |-> FALSE,
     data |-> JNull, order |-> 0]
FileNotUtf8 ==
    [present |-> TRUE, size |-> 2048, utf8 |-> FALSE, json |-> FALSE,
     data |-> JNull, order |-> 0]
FileTooLarge ==
    [present |-> TRUE, size |-> MaxLshwBytes + 1, utf8 |-> TRUE, json |-> TRUE,
     data |-> Bundle(JStr("A1"), Doc1), order |-> 0]
FileMissing ==
    [present |-> FALSE, size |-> 0, utf8 |-> FALSE, json |-> FALSE,
     data |-> JNull, order |-> 0]

\* one drive listed twice under two names, one serial-less drive listed
\* twice under two placeholders
DocTwins ==
    Machine(JStr(SerSys), <<DiskA, DiskNoSerial, DiskAMoved, DiskNoSerialUnknown>>)
FileTwins == JsonFile(Bundle(JStr("A1"), DocTwins), 0)
FileMemory == JsonFile(Bundle(JStr("A1"), DocSysAndBanks), 0)

\* the files of the concurrent specification
CoreFiles == <<FileB1, FileB1Permuted, FileB2, FileBig>>
\* the files of the validation specification: every way to fail the form
AllFiles ==
    <<FileB1, FileB1Permuted, FileB2, FileBig, FileIntId, FileLshwList,
      FileLshwEmpty, FileIntSerial, FileWrongSchema, FileNoSchema,
      FileNoGeneratedAt, FileNoScannerUser, FileScannerText, FileEmptyAssetId,
      FileNoLshw, FileNoMetaStatus, FileJsonList, FileNotJson, FileNotUtf8,
      FileTooLarge, FileMissing>>

(***************************************************************************)
(* forms.py                                                                *)
(***************************************************************************)
\* clean_file without the check of the schema string
EnvelopeValidNoSchema(data) ==
    /\ IsDict(data)
    /\ HasKey(data, "generated_at")
    /\ IsDict(Get(data, "scanner"))
    /\ Truthy(Get(Get(data, "scanner"), "hostname"))
    /\ Truthy(Get(Get(data, "scanner"), "user"))
    /\ IsDict(Get(data, "intake"))
    /\ Truthy(Get(Get(data, "intake"), "asset_id"))
    /\ IsDict(Get(data, "sources"))
    /\ HasKey(Get(data, "sources"), "lshw")
    /\ IsDict(Get(data, "meta"))
    /\ HasKey(Get(data, "meta"), "status")
\* the checks of clean_file on the parsed document
EnvelopeValid(data) ==
    /\ IsDict(data)
    /\ Get(data, "schema").t = "str" /\ Get(data, "schema").s = SchemaV1
    /\ HasKey(data, "generated_at")
    /\ IsDict(Get(data, "scanner"))
    /\ Truthy(Get(Get(data, "scanner"), "hostname"))
    /\ Truthy(Get(Get(data, "scanner"), "user"))
    /\ IsDict(Get(data, "intake"))
    /\ Truthy(Get(Get(data, "intake"), "asset_id"))
    /\ IsDict(Get(data, "sources"))
    /\ HasKey(Get(data, "sources"), "lshw")
    /\ IsDict(Get(data, "meta"))
    /\ HasKey(Get(data, "meta"), "status")
\* HardwareScanUploadForm.is_valid
FormValid(f) ==
    /\ f.present
    /\ f.size <= MaxLshwBytes
    /\ f.utf8
    /\ f.json
    /\ EnvelopeValid(f.data)
\* cleaned_data["parsed_json"]: the dict, its keys in the order of the text
ParsedJson(f) == [data |-> f.data, order |-> f.order]

StatusChoices == {"present", "removed", "wiped", "shredded", "returned_to_client"}
\* DriveStatusForm.is_valid: status is required and one of the choices
StatusFormValid(status) == status \in StatusChoices

(***************************************************************************)
(* The record store and the requests in progress                           *)
(***************************************************************************)
VARIABLES
    assets,    \* Asset rows; the id of a row is its index
    scans,     \* HardwareScan rows
    drives,    \* Drive rows
    touches,   \* AssetTouch rows
    now,       \* the time of the last write to a Drive row
    nreq,      \* POST requests received so far
    pc,        \* per session: where its request stands
    req,       \* per session: the request and its outcome
    loc,       \* per session: the local variables of the view
    env        \* who sends requests, and what they send

vars == <<assets, scans, drives, touches, now, nreq, pc, req, loc, env>>
store == <<assets, scans, drives, touches>>

Users == {"alice", "bob"}
MaxRequests == 3

NoRequest == [kind |-> "none", outcome |-> "none"]
NoLoc == [k |-> "none"]
NoUser == "nobody"

IndexSet(rows) == 1..Len(rows)
\* get_object_or_404(Asset, asset_tag=tag): the id, 0 for a 404
AssetId(tag) ==
    IF \E i \in IndexSet(assets) : assets[i].asset_tag = tag
    THEN CHOOSE i \in IndexSet(assets) : assets[i].asset_tag = tag
    ELSE 0

\* json.dumps without sort_keys: the text follows the order of the keys
CanonicalKeyOrder(bundle) == <<bundle.data, bundle.order>>
\* json.dumps(bundle, sort_keys=True, separators=(",", ":")): the text
\* depends on the value alone, not on the order of the keys
Canonical(bundle) == bundle.data
\* hashlib.sha256(canonical).hexdigest(): one digest per text
BundleHash(bundle) == [sha256 |-> Canonical(bundle)]

\* HardwareScan.objects.filter(asset=asset, bundle_hash=bundle_hash).first()
ScanExists(a, h) ==
    \E i \in IndexSet(scans) : scans[i].asset = a /\ scans[i].bundle_hash = h
\* a HardwareScan table without the constraint
NoScanConstraint(a, h) == FALSE
\* UniqueConstraint(fields=["asset", "bundle_hash"]): the INSERT is refused
ScanUniqueViolation(a, h) ==
    \E i \in IndexSet(scans) : scans[i].asset = a /\ scans[i].bundle_hash = h
\* the lookup of update_or_create(asset=asset, serial=serial)
DriveExists(a, serial) ==
    \E i \in IndexSet(drives) : drives[i].asset = a /\ drives[i].serial = serial
\* a Drive table without unique_together
NoDriveConstraint(a, serial) == FALSE
\* unique_together = [["asset", "serial"]]: the INSERT is refused
DriveUniqueViolation(a, serial) ==
    \E i \in IndexSet(drives) : drives[i].asset = a /\ drives[i].serial = serial
\* an update that goes to the row added last
DriveRowLast(a, serial) == Len(drives)
\* the row update_or_create found
DriveRow(a, serial) ==
    CHOOSE i \in IndexSet(drives) : drives[i].asset = a /\ drives[i].serial = serial

\* capacity_bytes is a BigIntegerField
CapacityOverflows(d) ==
    d.size_bytes.t = "int" /\ d.size_bytes.n >= BigIntLimitTiB
\* the defaults of update_or_create
ScanSource == "lshw"
UpsertDefaults(d) ==
    [logicalname |-> d.logicalname, capacity_bytes |-> d.size_bytes,
     model |-> PyStr(d.model), source |-> ScanSource]
\* an update that leaves logicalname out of the defaults
UpdatedDriveKeepsName(row, d, t) ==
    [row EXCEPT !.capacity_bytes = d.size_bytes, !.model = PyStr(d.model),
                !.source = "lshw", !.status_at = t]
\* update_or_create on an existing row: the defaults and the auto_now field
UpdatedDrive(row, d, t) ==
    [row EXCEPT !.logicalname = UpsertDefaults(d).logicalname,
                !.capacity_bytes = UpsertDefaults(d).capacity_bytes,
                !.model = UpsertDefaults(d).model,
                !.source = UpsertDefaults(d).source,
                !.status_at = t]
\* update_or_create creating the row: the other fields take their defaults
CreatedDrive(a, d, t) ==
    [asset |-> a, serial |-> d.serial,
     logicalname |-> UpsertDefaults(d).logicalname,
     capacity_bytes |-> UpsertDefaults(d).capacity_bytes,
     model |-> UpsertDefaults(d).model, source |-> UpsertDefaults(d).source,
     status |-> "present", status_note |-> "", status_by |-> NoUser,
     status_at |-> t]

\* _log_touch
Touch(a, type, user, details) ==
    [asset |-> a, touch_type |-> type, touched_by |-> user, details |-> details]
\* details that count the drives of the asset instead of the disks of the scan
UploadDetailsAssetDrives(l) ==
    [scan_id |-> l.scan_id, device_serial |-> l.device_serial,
     drive_count |-> Cardinality({i \in 1..Len(drives) : drives[i].asset = l.asset})]
UploadDetails(l) ==
    [scan_id |-> l.scan_id, device_serial |-> l.device_serial,
     drive_count |-> Len(l.disks)]

InitWith(e) ==
    /\ assets = <<>>
    /\ scans = <<>>
    /\ drives = <<>>
    /\ touches = <<>>
    /\ now = 0
    /\ nreq = 0
    /\ pc = [p \in Users |-> "idle"]
    /\ req = [p \in Users |-> NoRequest]
    /\ loc = [p \in Users |-> NoLoc]
    /\ env = e
\* two sessions racing on one asset
Init ==
    InitWith([sessions |-> Users, tags |-> {"A1"}, files |-> CoreFiles,
              statuses |-> {"wiped"}])
\* one session, two assets, every kind of upload and status form
InitForm ==
    InitWith([sessions |-> {"alice"}, tags |-> {"A1", "7"}, files |-> AllFiles,
              statuses |-> {"wiped", "destroyed"}])

\* the response is sent: the request is over
Finish(p, outcome) ==
    /\ pc' = [pc EXCEPT ![p] = "idle"]
    /\ req' = [req EXCEPT ![p].outcome = outcome]
    /\ loc' = [loc EXCEPT ![p] = NoLoc]

(***************************************************************************)
(* asset_detail: get_or_create of the asset                                *)
(***************************************************************************)
\* a new Asset row: the intake fields take their default
NewAsset(tag) == [asset_tag |-> tag, status |-> ""]
AssetDetail(tag) ==
    /\ tag \in env.tags
    /\ AssetId(tag) = 0
    /\ assets' = Append(assets, NewAsset(tag))
    /\ UNCHANGED <<scans, drives, touches, now, nreq, pc, req, loc, env>>

(***************************************************************************)
(* asset_scan_upload                                                       *)
(***************************************************************************)
\* the POST arrives
SubmitUpload(p, tag, f) ==
    /\ p \in env.sessions
    /\ tag \in env.tags
    /\ f \in 1..Len(env.files)
    /\ pc[p] = "idle"
    /\ nreq < MaxRequests
    /\ nreq' = nreq + 1
    /\ pc' = [pc EXCEPT ![p] = "recv"]
    /\ req' = [req EXCEPT ![p] = [kind |-> "upload", tag |-> tag, file |-> f,
                                  outcome |-> "pending"]]
    /\ UNCHANGED <<assets, scans, drives, touches, now, loc, env>>

BundleAssetId(bundle) ==
    LET intake == Or(Get(bundle.data, "intake"), JObj(EmptyKv))
    IN  PyStr(Or(Get(intake, "asset_id"), JStr("")))
LshwOf(bundle) ==
    Get(Or(Get(bundle.data, "sources"), JObj(EmptyKv)), "lshw")
NothingParsed == [device_serial |-> JNull, disks |-> <<>>]
\* a view without the identity check
IdentityUnchecked(bundle, tag) == TRUE
\* bundle_asset_id != str(asset_tag) rejects the upload
IdentityOk(bundle, tag) == BundleAssetId(bundle) = tag

\* from get_object_or_404 to the parse: the form, the identity check, the
\* dedup lookup and the parser
UploadBegin(p) ==
    /\ pc[p] = "recv"
    /\ req[p].kind = "upload"
    /\ LET tag    == req[p].tag
           f      == env.files[req[p].file]
           a      == AssetId(tag)
           bundle == ParsedJson(f)
           h      == BundleHash(bundle)
           lshw   == LshwOf(bundle)
           parsed == IF Truthy(lshw) THEN ParseLshwJson(lshw) ELSE NothingParsed
       IN  /\ IF a = 0 THEN Finish(p, "404")
              ELSE IF ~FormValid(f) THEN Finish(p, "invalid")
              ELSE IF ~IdentityOk(bundle, tag) THEN Finish(p, "rejected")
              ELSE IF ScanExists(a, h) THEN Finish(p, "duplicate")
              ELSE IF Truthy(lshw) /\ ParseLshwRaises(lshw) THEN Finish(p, "error")
              ELSE /\ pc' = [pc EXCEPT ![p] = "insert"]
                   /\ loc' = [loc EXCEPT ![p] =
                          [asset |-> a, raw_json |-> bundle.data, hash |-> h,
                           device_serial |-> parsed.device_serial,
                           disks |-> parsed.disks, scan_id |-> 0, i |-> 0]]
                   /\ req' = req
           /\ UNCHANGED <<assets, scans, drives, touches, now, nreq, env>>

\* a loop that stops after the first disk
AfterDiskFirstOnly(p, i) == "touch"
\* where the view goes after disk i - 1: the next disk, or the audit record
AfterDisk(p, i) ==
    IF i > Len(loc[p].disks) THEN "touch" ELSE "drives"

\* HardwareScan.objects.create
ScanInsert(p) ==
    /\ pc[p] = "insert"
    /\ IF ScanUniqueViolation(loc[p].asset, loc[p].hash)
       THEN /\ Finish(p, "error")
            /\ UNCHANGED <<scans, now>>
       ELSE /\ scans' = Append(scans,
                   [asset |-> loc[p].asset, device_serial |-> loc[p].device_serial,
                    raw_json |-> loc[p].raw_json, bundle_hash |-> loc[p].hash,
                    scanned_by |-> p])
            /\ now' = now
            /\ loc' = [loc EXCEPT ![p].scan_id = Len(scans) + 1, ![p].i = 1]
            /\ pc' = [pc EXCEPT ![p] = AfterDisk(p, 1)]
            /\ req' = req
    /\ UNCHANGED <<assets, drives, touches, nreq, env>>

\* one round of the loop over disks: the lookup of update_or_create, and
\* the update when the row is there
DriveUpsert(p) ==
    /\ pc[p] = "drives"
    /\ LET d == loc[p].disks[loc[p].i]
           a == loc[p].asset
       IN  IF Len(d.serial) = 0 \/ Len(StrStrip(d.serial)) = 0
           THEN /\ pc' = [pc EXCEPT ![p] = AfterDisk(p, loc[p].i + 1)]
                /\ loc' = [loc EXCEPT ![p].i = @ + 1]
                /\ UNCHANGED <<drives, now, req>>
           ELSE IF ~DriveExists(a, d.serial)
           THEN /\ pc' = [pc EXCEPT ![p] = "driveInsert"]
                /\ UNCHANGED <<drives, now, req, loc>>
           ELSE IF CapacityOverflows(d)
           THEN /\ Finish(p, "error")
                /\ UNCHANGED <<drives, now>>
           ELSE /\ drives' = [drives EXCEPT ![DriveRow(a, d.serial)] =
                                  UpdatedDrive(@, d, now + 1)]
                /\ now' = now + 1
                /\ pc' = [pc EXCEPT ![p] = AfterDisk(p, loc[p].i + 1)]
                /\ loc' = [loc EXCEPT ![p].i = @ + 1]
                /\ req' = req
    /\ UNCHANGED <<assets, scans, touches, nreq, env>>

\* the INSERT of update_or_create; on a unique violation it reads the row
\* again and updates it
DriveInsert(p) ==
    /\ pc[p] = "driveInsert"
    /\ LET d == loc[p].disks[loc[p].i]
           a == loc[p].asset
       IN  IF CapacityOverflows(d)
           THEN /\ Finish(p, "error")
                /\ UNCHANGED <<drives, now>>
           ELSE /\ drives' =
                       IF DriveUniqueViolation(a, d.serial)
                       THEN [drives EXCEPT ![DriveRow(a, d.serial)] =
                                 UpdatedDrive(@, d, now + 1)]
                       ELSE Append(drives, CreatedDrive(a, d, now + 1))
                /\ now' = now + 1
                /\ pc' = [pc EXCEPT ![p] = AfterDisk(p, loc[p].i + 1)]
                /\ loc' = [loc EXCEPT ![p].i = @ + 1]
                /\ req' = req
    /\ UNCHANGED <<assets, scans, touches, nreq, env>>

\* _log_touch(asset, "scan_upload", ...) and the response
LogUpload(p) ==
    /\ pc[p] = "touch"
    /\ touches' = Append(touches, Touch(loc[p].asset, "scan_upload", p,
                                        UploadDetails(loc[p])))
    /\ Finish(p, "saved")
    /\ UNCHANGED <<assets, scans, drives, now, nreq, env>>

(***************************************************************************)
(* drive_status_update                                                     *)
(***************************************************************************)
SubmitStatus(p, tag, id, status) ==
    /\ p \in env.sessions
    /\ tag \in env.tags
    /\ status \in env.statuses
    /\ pc[p] = "idle"
    /\ nreq < MaxRequests
    /\ nreq' = nreq + 1
    /\ pc' = [pc EXCEPT ![p] = "recv"]
    /\ req' = [req EXCEPT ![p] = [kind |-> "status", tag |-> tag, drive_id |-> id,
                                  status |-> status, status_note |-> "bench 2",
                                  outcome |-> "pending"]]
    /\ UNCHANGED <<assets, scans, drives, touches, now, loc, env>>

\* the two get_object_or_404 and the form: the row is read into the instance
StatusLoad(p) ==
    /\ pc[p] = "recv"
    /\ req[p].kind = "status"
    /\ LET a  == AssetId(req[p].tag)
           id == req[p].drive_id
       IN  IF a = 0 \/ id \notin IndexSet(drives) THEN Finish(p, "404")
           ELSE IF drives[id].asset # a THEN Finish(p, "404")
           ELSE IF ~StatusFormValid(req[p].status) THEN Finish(p, "invalid")
           ELSE /\ pc' = [pc EXCEPT ![p] = "save"]
                /\ loc' = [loc EXCEPT ![p] =
                       [asset |-> a, id |-> id,
                        drive |-> [drives[id] EXCEPT
                                      !.status = req[p].status,
                                      !.status_note = req[p].status_note]]]
                /\ req' = req
    /\ UNCHANGED <<assets, scans, drives, touches, now, nreq, env>>

\* drive.save() writes every column of the instance; then _log_touch
StatusSave(p) ==
    /\ pc[p] = "save"
    /\ drives' = [drives EXCEPT ![loc[p].id] =
                      [loc[p].drive EXCEPT !.status_by = p, !.status_at = now + 1]]
    /\ touches' = Append(touches, Touch(loc[p].asset, "drive_status", p,
                       [drive_id |-> loc[p].id, serial |-> loc[p].drive.serial,
                        status |-> loc[p].drive.status,
                        status_note |-> loc[p].drive.status_note]))
    /\ now' = now + 1
    /\ Finish(p, "saved")
    /\ UNCHANGED <<assets, scans, nreq, env>>

Tags == {"A1", "7"}
StatusInputs == {"wiped", "destroyed"}
Next ==
    \/ \E tag \in Tags : AssetDetail(tag)
    \/ \E p \in Users, tag \in Tags, f \in 1..Len(env.files) :
          SubmitUpload(p, tag, f)
    \/ \E p \in Users : UploadBegin(p)
    \/ \E p \in Users : ScanInsert(p)
    \/ \E p \in Users : DriveUpsert(p)
    \/ \E p \in Users : DriveInsert(p)
    \/ \E p \in Users : LogUpload(p)
    \/ \E p \in Users, tag \in Tags, id \in 1..(Len(drives) + 1),
          status \in StatusInputs : SubmitStatus(p, tag, id, status)
    \/ \E p \in Users : StatusLoad(p)
    \/ \E p \in Users : StatusSave(p)

Spec == Init /\ [][Next]_vars
SpecForm == InitForm /\ [][Next]_vars

(***************************************************************************)
(* asset_intake_update and the direct creation of an Asset                 *)
(***************************************************************************)
AssetStatusChoices ==
    {"intake", "testing", "ready", "sold", "recycled", "returned"}
\* AssetIntakeForm: no field is required; a status must be one of the choices
IntakeFormValid(status) == status = "" \/ status \in AssetStatusChoices
\* form.changed_data and cleaned_data for the one field the model follows
ChangedFields(row, status) ==
    IF row.status = status THEN <<>> ELSE <<[field |-> "status", value |-> status]>>

\* an intake update that rewrites the last audit record of the asset
IntakeUpdateRewritesTouch(p, tag, status) ==
    /\ p \in env.sessions /\ tag \in env.tags
    /\ pc[p] = "idle" /\ nreq < MaxRequests
    /\ nreq' = nreq + 1
    /\ LET a == AssetId(tag)
       IN  /\ a # 0 /\ IntakeFormValid(status) /\ Len(touches) > 0
           /\ assets' = [assets EXCEPT ![a].status = status]
           /\ touches' = [touches EXCEPT ![Len(touches)] =
                  Touch(a, "intake_update", p,
                        [updated_fields |-> ChangedFields(assets[a], status)])]
           /\ req' = [req EXCEPT ![p] = [kind |-> "intake", tag |-> tag,
                                         status |-> status, outcome |-> "saved"]]
    /\ UNCHANGED <<scans, drives, now, pc, loc, env>>
\* the whole view: get_object_or_404, the form, form.save() and _log_touch
IntakeUpdate(p, tag, status) ==
    /\ p \in env.sessions
    /\ tag \in env.tags
    /\ pc[p] = "idle"
    /\ nreq < MaxRequests
    /\ nreq' = nreq + 1
    /\ LET a == AssetId(tag)
           r == [kind |-> "intake", tag |-> tag, status |-> status]
       IN  IF a = 0
           THEN /\ req' = [req EXCEPT ![p] = r @@ [outcome |-> "404"]]
                /\ UNCHANGED <<assets, touches>>
           ELSE IF ~IntakeFormValid(status)
           THEN /\ req' = [req EXCEPT ![p] = r @@ [outcome |-> "invalid"]]
                /\ UNCHANGED <<assets, touches>>
           ELSE /\ assets' = [assets EXCEPT ![a].status = status]
                /\ touches' = Append(touches,
                       Touch(a, "intake_update", p,
                             [updated_fields |-> ChangedFields(assets[a], status)]))
                /\ req' = [req EXCEPT ![p] = r @@ [outcome |-> "saved"]]
    /\ UNCHANGED <<scans, drives, now, pc, loc, env>>

\* an Asset table without the unique index on asset_tag
NoAssetConstraint(tag) == FALSE
\* asset_tag = CharField(unique=True): the INSERT is refused
AssetUniqueViolation(tag) ==
    \E i \in IndexSet(assets) : assets[i].asset_tag = tag
\* Asset.objects.create(asset_tag=tag, created_by=user)
AssetCreate(p, tag) ==
    /\ p \in env.sessions
    /\ tag \in env.tags
    /\ pc[p] = "idle"
    /\ nreq < MaxRequests
    /\ nreq' = nreq + 1
    /\ LET r == [kind |-> "create", tag |-> tag]
       IN  IF AssetUniqueViolation(tag)
           THEN /\ req' = [req EXCEPT ![p] = r @@ [outcome |-> "error"]]
                /\ assets' = assets
           ELSE /\ req' = [req EXCEPT ![p] = r @@ [outcome |-> "saved"]]
                /\ assets' = Append(assets, NewAsset(tag))
    /\ UNCHANGED <<scans, drives, touches, now, pc, loc, env>>

IntakeInputs == {"testing", "scrapped"}
NextAudit ==
    \/ Next
    \/ \E p \in Users, tag \in Tags, status \in IntakeInputs :
          IntakeUpdate(p, tag, status)
    \/ \E p \in Users, tag \in Tags : AssetCreate(p, tag)
\* one session, two assets, two scans that share a disk without a serial
InitAudit ==
    InitWith([sessions |-> {"alice"}, tags |-> {"A1", "7"},
              files |-> <<FileB1, FileB3>>, statuses |-> {"wiped"}])
SpecAudit == InitAudit /\ [][NextAudit]_vars

(***************************************************************************)
(* asset_detail of an asset that exists: the facts shown for its latest    *)
(* scan                                                                    *)
(***************************************************************************)
\* asset.hardware_scans.order_by("-scanned_at").first(): 0 when none
LatestScan(a) ==
    LET own == {i \in IndexSet(scans) : scans[i].asset = a}
    IN  IF own = {} THEN 0 ELSE CHOOSE i \in own : \A j \in own : j <= i
\* parsed = parse_lshw_json(latest_scan.raw_json): the memory facts handed
\* to the template
ShownFacts(scan) ==
    [memory_slots       |-> Summary(scan.raw_json).memory_slots,
     memory_total_bytes |-> Summary(scan.raw_json).memory_total_bytes]
NothingShown == [memory_slots |-> <<>>, memory_total_bytes |-> JNull]
ViewDetail(p, tag) ==
    /\ p \in env.sessions
    /\ tag \in env.tags
    /\ pc[p] = "idle"
    /\ AssetId(tag) # 0
    /\ LET id == LatestScan(AssetId(tag))
           r  == [kind |-> "detail", tag |-> tag, scan |-> id]
       IN  req' = [req EXCEPT ![p] =
                      IF id = 0 THEN r @@ [outcome |-> "shown"] @@ NothingShown
                      ELSE IF ParseLshwRaises(scans[id].raw_json)
                      THEN r @@ [outcome |-> "error"]
                      ELSE r @@ [outcome |-> "shown"] @@ ShownFacts(scans[id])]
    /\ UNCHANGED <<assets, scans, drives, touches, now, nreq, pc, loc, env>>

NextDetail ==
    \/ Next
    \/ \E p \in Users, tag \in Tags : ViewDetail(p, tag)
\* one session, two assets, a scan with memory banks and a scan that lists
\* its drives twice
InitDetail ==
    InitWith([sessions |-> {"alice"}, tags |-> {"A1", "7"},
              files |-> <<FileTwins, FileMemory>>, statuses |-> {"wiped"}])
SpecDetail == InitDetail /\ [][NextDetail]_vars

(***************************************************************************)
(* Calls of the pure functions of lshw_parser.py: env is the call, the     *)
(* first session makes it, and its locals hold what the call returns.      *)
(***************************************************************************)
Caller == "alice"
MaxBlankLen == 10
MaxWordLen == 6
MaxByteDigits == 5
\* strings of zeros and blanks, strings of a few letters, and the
\* placeholders in several spellings
SerialInputs ==
    UNION {[1..n -> {"0", " "}] : n \in 0..MaxBlankLen}
    \cup UNION {[1..n -> {"N", "a", "/", "\n"}] : n \in 0..MaxWordLen}
    \cup {Chars("unknown"), Chars("Unknown"), Chars("UNKNOWN"), Chars(" unknown\t"),
          Chars("unknown1"), Chars("none"), Chars("NONE  "), Chars("n/a"),
          Chars("null"), Chars("Null"), Chars("0"), Chars("not specified"),
          Chars("Not Specified"), Chars("\tNOT SPECIFIED "), Chars("not  specified"),
          Chars("notspecified"), Chars("WD-A1234"), Chars("  WD-A1"), Chars("WD-A1"),
          SerDiskAPadded, SerSys}
ByteDigits == {0, 1, 512, 1023}
\* None, 0, every count of up to MaxByteDigits digits, and powers beyond
ByteInputs ==
    {JNull, Bytes(<<>>)}
    \cup {Bytes(<<lead>> \o rest) :
             lead \in ByteDigits \ {0},
             rest \in UNION {[1..n -> ByteDigits] : n \in 0..(MaxByteDigits - 1)}}
    \cup {Bytes(<<lead, 0, 0, 0, 0, 0>>) : lead \in ByteDigits \ {0}}
    \cup {Bytes(<<lead, 0, 0, 0, 0, 0, 0>>) : lead \in ByteDigits \ {0}}
ParseInputs ==
    Docs \o <<JNull, JList(<<Doc1>>), JStr("lshw"), JInt(5)>>

InitFn ==
    \/ \E s \in SerialInputs : InitWith([fn |-> "_looks_like_serial", arg |-> s])
    \/ \E b \in ByteInputs : InitWith([fn |-> "format_bytes", arg |-> b])
    \/ \E i \in 1..Len(ParseInputs) :
          InitWith([fn |-> "parse_lshw_json", arg |-> ParseInputs[i]])

Return(value) ==
    /\ pc[Caller] = "idle"
    /\ pc' = [pc EXCEPT ![Caller] = "returned"]
    /\ loc' = [loc EXCEPT ![Caller] = value]
    /\ UNCHANGED <<assets, scans, drives, touches, now, nreq, req, env>>
CallLooksLikeSerial ==
    /\ env.fn = "_looks_like_serial"
    /\ Return([result |-> LooksLikeSerial(env.arg)])
CallFormatBytes ==
    /\ env.fn = "format_bytes"
    /\ Return([result |-> FormatBytes(env.arg)])
CallParseLshwJson ==
    /\ env.fn = "parse_lshw_json"
    /\ IF ParseLshwRaises(env.arg)
       THEN Return([raised |-> TRUE])
       ELSE Return([raised |-> FALSE, result |-> Summary(env.arg)])
NextFn == CallLooksLikeSerial \/ CallFormatBytes \/ CallParseLshwJson
SpecFn == InitFn /\ [][NextFn]_vars

(***************************************************************************)
(* Calls of the functions that walk a device document, on documents built  *)
(* from a pool of nodes: a root, its bus, up to MaxKids children under the *)
(* bus, one of which may be a bridge with children of its own.             *)
(***************************************************************************)
MaxKids == 2
SerChassis == <<"C", "H", "-", "9", "0", "0", "1">>
UuidSys == <<"U", "U", "I", "D", "-", "1", "2", "3", "4">>
Chassis == JObj([id |-> JStr("chassis"), class |-> JStr("chassis"),
                 serial |-> JStr(SerChassis)])
\* a nested system node: a placeholder serial, a plausible uuid
SubSystem == JObj([id |-> JStr("vm"), class |-> JStr("system"),
                   serial |-> JStr(SerUnknown), uuid |-> JStr(UuidSys)])
\* a node of another class with a serial and a uuid
Processor == JObj([id |-> JStr("cpu"), class |-> JStr("processor"),
                   serial |-> JStr(SerBig), uuid |-> JStr(UuidSys)])
SysMemory == MemoryNode("System Memory", JInt(8), <<Bank("0", JInt(8))>>)
TreeLeaves ==
    <<DiskA, DiskNoSerial, Volume, JStr("junk"), DocChildrenText, Chassis,
      SubSystem, Processor, SysMemory, CacheNode, Bank("1", JInt(4))>>
\* what a bridge holds: nothing, disks, a disk below a further bridge, a
\* list as a child, a disk whose serial is a number
Bridge(kids) ==
    JObj([id |-> JStr("pci"), class |-> JStr("bridge"), children |-> JList(kids)])
BridgeKids ==
    <<(<<>>), <<DiskA>>, <<DiskNoSerial, JStr("junk"), DiskAMoved>>,
      <<Chassis, Bridge(<<DiskBig, Bridge(<<DiskA>>)>>)>>,
      <<JList(<<DiskA>>), SubSystem>>, <<DiskIntSerial>>>>
\* the root: its class, serial and uuid
Root(class, serial, uuid, kids) ==
    JObj([id |-> JStr("computer"), class |-> class, serial |-> serial,
          uuid |-> uuid,
          children |-> JList(<<
              JObj([id |-> JStr("core"), class |-> JStr("bus"),
                    children |-> JList(kids)])>>)])
RootShapes ==
    <<[class |-> JStr("system"), serial |-> JStr(SerSys), uuid |-> JStr(UuidSys)],
      [class |-> JStr("system"), serial |-> JStr(SerUnknown), uuid |-> JStr(UuidSys)],
      [class |-> JStr("computer"), serial |-> JInt(12345678), uuid |-> JNull],
      [class |-> JStr("system"), serial |-> JNull, uuid |-> JStr(<<"0">>)]>>
\* the children under the bus: index Len(TreeLeaves) + 1 stands for the bridge
Tree(shape, top, inner) ==
    Root(RootShapes[shape].class, RootShapes[shape].serial, RootShapes[shape].uuid,
         [k \in 1..Len(top) |->
             IF top[k] > Len(TreeLeaves) THEN Bridge(BridgeKids[inner])
             ELSE TreeLeaves[top[k]]])
ParserFns ==
    {"_walk_nodes", "parse_disks", "extract_serial", "extract_basic_hw",
     "parse_lshw_json"}
InitParser ==
    \/ \E fn \in ParserFns, i \in 1..Len(ParseInputs) :
          InitWith([fn |-> fn, arg |-> ParseInputs[i]])
    \/ \E fn \in ParserFns, shape \in 1..Len(RootShapes),
          top \in UNION {[1..n -> 1..(Len(TreeLeaves) + 1)] : n \in 0..MaxKids},
          inner \in 1..Len(BridgeKids) :
          InitWith([fn |-> fn, arg |-> Tree(shape, top, inner)])

CallWalkNodes ==
    /\ env.fn = "_walk_nodes"
    /\ Return([raised |-> FALSE, result |-> WalkNodes(env.arg)])
CallParseDisks ==
    /\ env.fn = "parse_disks"
    /\ IF ParseDisksRaises(env.arg)
       THEN Return([raised |-> TRUE])
       ELSE Return([raised |-> FALSE, result |-> ParseDisks(env.arg)])
CallExtractSerial ==
    /\ env.fn = "extract_serial"
    /\ Return([raised |-> FALSE, result |-> ExtractSerial(env.arg)])
CallExtractBasicHw ==
    /\ env.fn = "extract_basic_hw"
    /\ IF ExtractBasicHwRaises(env.arg)
       THEN Return([raised |-> TRUE])
       ELSE Return([raised |-> FALSE, result |-> ExtractBasicHw(env.arg)])
NextParser ==
    \/ CallWalkNodes
    \/ CallParseDisks
    \/ CallExtractSerial
    \/ CallExtractBasicHw
    \/ CallParseLshwJson
SpecParser == InitParser /\ [][NextParser]_vars

(***************************************************************************)
(* Properties                                                              *)
(***************************************************************************)
FileOf(p) == env.files[req[p].file]
\* session p takes the first step of its upload: from the asset lookup to
\* the parse
BeginsUpload(p) ==
    pc[p] = "recv" /\ req[p].kind = "upload" /\ pc'[p] # "recv"
\* session p takes a step of its upload
UploadStep(p) ==
    /\ req[p].kind = "upload"
    /\ pc[p] # "idle"
    /\ (pc'[p] # pc[p] \/ loc'[p] # loc[p])
RowsOf(a, serial) ==
    {i \in IndexSet(drives) : drives[i].asset = a /\ drives[i].serial = serial}

\* C1: an upload whose content (key order aside) is already a scan of the
\* asset ends as a duplicate and leaves assets, scans, drives and touches
\* as they were, every time it is repeated.
C1_AlreadyIngested(p) ==
    /\ AssetId(req[p].tag) # 0
    /\ FormValid(FileOf(p))
    /\ \E i \in IndexSet(scans) :
          /\ scans[i].asset = AssetId(req[p].tag)
          /\ scans[i].raw_json = FileOf(p).data
C1_ReplayIsNoOp ==
    [][\A p \in Users :
          (BeginsUpload(p) /\ C1_AlreadyIngested(p))
          => (store' = store /\ pc'[p] = "idle" /\ req'[p].outcome = "duplicate")]_vars
\* one session saved the bundle, the other sent the same content with its
\* keys in another order and got the duplicate answer
C1_Witness ==
    \E p, q \in Users :
        /\ p # q
        /\ req[q].kind = "upload" /\ req[q].outcome = "saved"
        /\ req[p].kind = "upload" /\ req[p].outcome = "duplicate"
        /\ FileOf(p).data = FileOf(q).data
        /\ FileOf(p).order # FileOf(q).order

\* C2: a valid bundle whose str(intake.asset_id) is not the tag of the URL
\* is rejected and the store stays as it was.
C2_Mismatch(p) ==
    /\ AssetId(req[p].tag) # 0
    /\ FormValid(FileOf(p))
    /\ PyStr(Get(Get(FileOf(p).data, "intake"), "asset_id")) # req[p].tag
C2_MismatchRejected ==
    [][\A p \in Users :
          (BeginsUpload(p) /\ C2_Mismatch(p))
          => (store' = store /\ pc'[p] = "idle" /\ req'[p].outcome = "rejected")]_vars
C2_Witness ==
    \E p \in Users :
        /\ req[p].kind = "upload" /\ req[p].outcome = "rejected"
        /\ Len(scans) > 0 /\ Len(drives) > 0 /\ Len(touches) > 0

\* C3: an upload that fails the form (no file, oversized, not UTF-8, not
\* JSON, not an object, wrong schema, a required key missing) writes nothing.
C3_MissingKey(data) ==
    \/ ~HasKey(data, "generated_at")
    \/ ~IsDict(Get(data, "scanner"))
    \/ ~Truthy(Get(Get(data, "scanner"), "hostname"))
    \/ ~Truthy(Get(Get(data, "scanner"), "user"))
    \/ ~IsDict(Get(data, "intake"))
    \/ ~Truthy(Get(Get(data, "intake"), "asset_id"))
    \/ ~IsDict(Get(data, "sources"))
    \/ ~HasKey(Get(data, "sources"), "lshw")
    \/ ~IsDict(Get(data, "meta"))
    \/ ~HasKey(Get(data, "meta"), "status")
C3_Invalid(f) ==
    \/ ~f.present
    \/ f.size > MaxLshwBytes
    \/ ~f.utf8
    \/ ~f.json
    \/ ~IsDict(f.data)
    \/ Get(f.data, "schema") # JStr(SchemaV1)
    \/ C3_MissingKey(f.data)
C3_InvalidWritesNothing ==
    [][\A p \in Users :
          (BeginsUpload(p) /\ C3_Invalid(FileOf(p)))
          => (store' = store /\ pc'[p] = "idle"
              /\ req'[p].outcome \in {"invalid", "404"})]_vars
C3_Witness ==
    \E p \in Users :
        /\ req[p].kind = "upload" /\ req[p].outcome = "invalid"
        /\ Len(scans) > 0 /\ Len(drives) > 0 /\ Len(touches) > 0

\* C4: every persisted HardwareScan holds a bundle that meets the contract:
\* the schema string, generated_at, scanner.hostname, scanner.user,
\* intake.asset_id and meta.status present, sources.lshw present and an object.
C4_Contract(data) ==
    /\ IsDict(data)
    /\ Get(data, "schema") = JStr(SchemaV1)
    /\ HasKey(data, "generated_at")
    /\ IsDict(Get(data, "scanner"))
    /\ HasKey(Get(data, "scanner"), "hostname")
    /\ HasKey(Get(data, "scanner"), "user")
    /\ IsDict(Get(data, "intake"))
    /\ HasKey(Get(data, "intake"), "asset_id")
    /\ IsDict(Get(data, "meta"))
    /\ HasKey(Get(data, "meta"), "status")
    /\ IsDict(Get(data, "sources"))
    /\ HasKey(Get(data, "sources"), "lshw")
    /\ IsDict(Get(Get(data, "sources"), "lshw"))
C4_PersistedBundlesMeetContract ==
    \A i \in IndexSet(scans) : C4_Contract(scans[i].raw_json)

\* C5: there is at most one Drive row per (asset, serial).
C5_OneDrivePerSerial ==
    \A i, j \in IndexSet(drives) :
        (drives[i].asset = drives[j].asset /\ drives[i].serial = drives[j].serial)
        => i = j
\* two scans of the asset carried the serial, a status update came in
\* between, and the serial has one row holding the later scan's values
C5_Witness ==
    /\ Len(scans) >= 2
    /\ \E i \in IndexSet(drives) :
          /\ drives[i].serial = SerDiskA
          /\ drives[i].status = "wiped"
          /\ drives[i].logicalname = "/dev/sdb"
          /\ RowsOf(drives[i].asset, SerDiskA) = {i}

\* session p finishes the upsert of the disk fact its loop stands at
UpsertsFact(p) ==
    /\ pc[p] \in {"drives", "driveInsert"}
    /\ pc'[p] \in {"drives", "touch"}
    /\ loc'[p].i = loc[p].i + 1
    /\ Len(StrStrip(loc[p].disks[loc[p].i].serial)) > 0
\* session p ends its upload with the audit write
CompletesUpload(p) == pc[p] = "touch" /\ pc'[p] = "idle"
FactWritten(rows, a, d, source) ==
    \E i \in 1..Len(rows) :
        /\ rows[i].asset = a
        /\ rows[i].serial = d.serial
        /\ rows[i].logicalname = d.logicalname
        /\ rows[i].capacity_bytes = d.size_bytes
        /\ rows[i].model = PyStr(d.model)
        /\ rows[i].source = source

\* C6, as claimed: when an ingestion completes, every disk fact of the scan
\* with a non-empty serial has a Drive of the asset with the fact's
\* logicalname, size and model and with source "scan".
C6_DrivesMatchFactsSourceScan ==
    [][\A p \in Users :
          CompletesUpload(p)
          => \A k \in 1..Len(loc[p].disks) :
                Len(StrStrip(loc[p].disks[k].serial)) > 0
                => FactWritten(drives', loc[p].asset, loc[p].disks[k], "scan")]_vars
\* C6, amended: the upsert of a disk fact with a non-empty serial leaves a
\* Drive of the asset with the fact's serial, logicalname, size and model
\* and with source "lshw"; when the ingestion completes every such fact has
\* a Drive of the asset with source "lshw".
C6_UpsertWritesFact ==
    [][\A p \in Users :
          /\ UpsertsFact(p)
             => FactWritten(drives', loc[p].asset, loc[p].disks[loc[p].i], "lshw")
          /\ CompletesUpload(p)
             => \A k \in 1..Len(loc[p].disks) :
                   Len(StrStrip(loc[p].disks[k].serial)) > 0
                   => \E i \in IndexSet(drives) :
                         /\ drives'[i].asset = loc[p].asset
                         /\ drives'[i].serial = loc[p].disks[k].serial
                         /\ drives'[i].source = "lshw"]_vars
\* a second scan of the asset was saved and overwrote the name and the size
\* the first scan had written for the serial
C6_Witness ==
    \E p \in Users :
        /\ req[p].kind = "upload" /\ req[p].outcome = "saved"
        /\ FileOf(p) = FileB2
        /\ Len(scans) >= 2
        /\ \E i \in IndexSet(drives) :
              /\ drives[i].serial = SerDiskA
              /\ drives[i].logicalname = "/dev/sdb"
              /\ drives[i].capacity_bytes = JInt(2)
              /\ drives[i].source = "lshw"

\* C7: a step of an ingestion leaves status, status_note, status_by and
\* status_at of every Drive that exists as they were.
C7_IngestionKeepsStatusFields ==
    [][\A p \in Users :
          UploadStep(p)
          => \A i \in IndexSet(drives) :
                /\ drives'[i].status = drives[i].status
                /\ drives'[i].status_note = drives[i].status_note
                /\ drives'[i].status_by = drives[i].status_by
                /\ drives'[i].status_at = drives[i].status_at]_vars

\* C8: there is at most one HardwareScan per (asset, bundle_hash), and a
\* request that reaches the insert when the row is there fails without
\* writing anything.
C8_UniqueScans ==
    \A i, j \in IndexSet(scans) :
        (scans[i].asset = scans[j].asset
         /\ scans[i].bundle_hash = scans[j].bundle_hash) => i = j
C8_OneScanPerBundle ==
    /\ []C8_UniqueScans
    /\ [][\A p \in Users :
            (/\ pc[p] = "insert"
             /\ pc'[p] # "insert"
             /\ \E i \in IndexSet(scans) :
                   /\ scans[i].asset = loc[p].asset
                   /\ scans[i].raw_json = loc[p].raw_json)
            => (store' = store /\ pc'[p] = "idle" /\ req'[p].outcome = "error")]_vars
\* both sessions sent the same content; one saved it, the other failed at
\* the insert, and the content has one row
C8_Witness ==
    \E p, q \in Users :
        /\ p # q
        /\ req[q].kind = "upload" /\ req[q].outcome = "saved"
        /\ req[p].kind = "upload" /\ req[p].outcome = "error"
        /\ FileOf(p).data = FileOf(q).data
        /\ Cardinality({i \in IndexSet(scans) :
                           scans[i].raw_json = FileOf(p).data}) = 1

\* C9: when an ingestion fails after the dedup lookup, no HardwareScan of
\* that attempt remains.
C9_FailedIngestionLeavesNoScan ==
    [][\A p \in Users :
          (/\ pc[p] \in {"insert", "drives", "driveInsert", "touch"}
           /\ pc'[p] = "idle"
           /\ req'[p].outcome = "error")
          => ~\E i \in 1..Len(scans') :
                 /\ scans'[i].asset = loc[p].asset
                 /\ scans'[i].bundle_hash = loc[p].hash
                 /\ scans'[i].scanned_by = p]_vars

\* C10: an upload appends one scan_upload touch, at the step that completes
\* it, naming the scan the request created, the device serial parsed from
\* it and the number of its disk facts; every other step of an upload, and
\* so every upload that ends otherwise, leaves the touches as they were.
C10_OwnScan(p) ==
    CHOOSE i \in IndexSet(scans) :
        scans[i].asset = loc[p].asset /\ scans[i].raw_json = loc[p].raw_json
C10_Expected(p) ==
    LET id   == C10_OwnScan(p)
        lshw == Get(Get(scans[id].raw_json, "sources"), "lshw")
    IN  [asset |-> scans[id].asset, touch_type |-> "scan_upload",
         touched_by |-> p,
         details |-> [scan_id |-> id,
                      device_serial |-> ExtractSerial(lshw),
                      drive_count |-> Len(DiskNodes(WalkNodes(lshw)))]]
C10_OneTouchPerIngestion ==
    [][\A p \in Users :
          UploadStep(p)
          => IF pc'[p] = "idle" /\ req'[p].outcome = "saved"
             THEN touches' = Append(touches, C10_Expected(p))
             ELSE touches' = touches]_vars
\* a scan with two disks was saved and logged; a duplicate and a later scan
\* with one disk were handled too
C10_Witness ==
    /\ \E i \in IndexSet(touches) :
          /\ touches[i].touch_type = "scan_upload"
          /\ touches[i].details.drive_count = 2
          /\ touches[i].details.device_serial = JStr(SerSys)
    /\ \E p \in Users : req[p].kind = "upload" /\ req[p].outcome = "duplicate"
    /\ Cardinality({i \in IndexSet(touches) :
                       touches[i].touch_type = "scan_upload"}) = 1
    /\ Len(scans) = 1

\* C11: every step leaves the audit records that exist as they are, in
\* their order; records are only added at the end.
C11_AppendOnly ==
    [][/\ Len(touches') >= Len(touches)
       /\ SubSeq(touches', 1, Len(touches)) = touches]_vars
\* an ingestion, an intake update and a drive status update were all logged
C11_Witness ==
    /\ Len(touches) >= 3
    /\ \A type \in {"scan_upload", "intake_update", "drive_status"} :
          \E i \in IndexSet(touches) : touches[i].touch_type = type

\* C12: the visit of asset_detail that creates the Asset appends an
\* AssetTouch for it.
C12_VisitCreates(tag) ==
    /\ AssetId(tag) = 0
    /\ \E i \in 1..Len(assets') : assets'[i].asset_tag = tag
    /\ req' = req
C12_FirstVisitAudited ==
    [][\A tag \in Tags :
          C12_VisitCreates(tag)
          => \E i \in (Len(touches) + 1)..Len(touches') :
                assets'[touches'[i].asset].asset_tag = tag]_vars

\* C19: no two Assets have the same tag, and a direct creation with a tag
\* that exists fails and leaves the Assets as they were.
C19_UniqueTags ==
    \A i, j \in IndexSet(assets) :
        assets[i].asset_tag = assets[j].asset_tag => i = j
C19_OneAssetPerTag ==
    /\ []C19_UniqueTags
    /\ [][\A p \in Users :
            (/\ req'[p] # req[p]
             /\ req'[p].kind = "create"
             /\ AssetId(req'[p].tag) # 0)
            => (assets' = assets /\ req'[p].outcome = "error")]_vars
\* both tags were visited or created, and a creation with one of them failed
C19_Witness ==
    /\ Len(assets) = 2
    /\ \E p \in Users : req[p].kind = "create" /\ req[p].outcome = "error"

\* the disk nodes of a stored scan that get a synthetic serial
C13_Lshw(scan) == Get(Get(scan.raw_json, "sources"), "lshw")
C13_SerialLess(doc) ==
    LET ns == DiskNodes(WalkNodes(doc))
    IN  {ns[i] : i \in {j \in 1..Len(ns) :
                           ~DiskRaises(ns[j]) /\ ~PlausibleStr(Get(ns[j], "serial"))}}
C13_Triple(n) == <<Get(n, "logicalname"), Get(n, "size"), DiskModel(n)>>
C13_IsSynthetic(serial) ==
    /\ Len(serial) > Len(NoSerialPrefix)
    /\ SubSeq(serial, 1, Len(NoSerialPrefix)) = NoSerialPrefix
\* C13: two disk nodes without a plausible serial and with the same
\* (logicalname, size, model) get the same synthetic serial, and an asset
\* has no more Drives with a synthetic serial than its scans have distinct
\* triples of such disks.
C13_SyntheticSerialFollowsTriple ==
    /\ \A i, j \in IndexSet(scans) :
          \A n \in C13_SerialLess(C13_Lshw(scans[i])),
             m \in C13_SerialLess(C13_Lshw(scans[j])) :
                C13_Triple(n) = C13_Triple(m) => DiskSerial(n) = DiskSerial(m)
    /\ \A a \in IndexSet(assets) :
          Cardinality({i \in IndexSet(drives) :
                          drives[i].asset = a /\ C13_IsSynthetic(drives[i].serial)})
          <= Cardinality(UNION {{C13_Triple(n) : n \in C13_SerialLess(C13_Lshw(scans[i]))} :
                                   i \in {k \in IndexSet(scans) : scans[k].asset = a}})
\* two different scans of one asset, each with the serial-less disk under
\* another placeholder, were ingested whole; the disk has one Drive
C13_Witness ==
    /\ Len(scans) = 2
    /\ scans[1].asset = scans[2].asset
    /\ Len(touches) = 2
    /\ \A i \in {1, 2} : C13_SerialLess(C13_Lshw(scans[i])) # {}
    /\ Cardinality({i \in IndexSet(drives) : C13_IsSynthetic(drives[i].serial)}) = 1

(***************************************************************************)
(* Properties of the parser functions                                      *)
(***************************************************************************)
Returned(fn) == env.fn = fn /\ pc[Caller] = "returned"
Parsed == Returned("parse_lshw_json") /\ ~loc[Caller].raised
EndsWith(text, suffix) ==
    /\ Len(text) >= Len(suffix)
    /\ SubSeq(text, Len(text) - Len(suffix) + 1, Len(text)) = suffix

\* the deny-list as the specification gives it
C17_DenyList ==
    {Chars("unknown"), Chars("none"), Chars("n/a"), Chars("na"), Chars("null"),
     Chars("0"), Chars("0000000"), Chars("00000000"), Chars("000000000"),
     Chars("not specified")}
C17_Rejected(s) ==
    \/ s = <<>>
    \/ \A i \in 1..Len(s) : s[i] \in Whitespace
    \/ Len(StrStrip(s)) < 6
    \/ StrLower(StrStrip(s)) \in C17_DenyList

\* C14: parse_disks returns one fact per disk node, each with a serial that
\* is not empty and not blank: the trimmed serial of the node when that is a
\* plausible string, and otherwise "NOSERIAL-" and 12 hex characters, 21
\* characters in all.
C14_NonEmptySerials ==
    Parsed =>
        LET ns    == DiskNodes(WalkNodes(env.arg))
            facts == loc[Caller].result.disks
        IN  /\ Len(facts) = Len(ns)
            /\ \A i \in 1..Len(facts) :
                  LET raw    == Get(ns[i], "serial")
                      serial == facts[i].serial
                  IN  /\ Len(StrStrip(serial)) > 0
                      /\ IF IsStr(raw) /\ ~C17_Rejected(raw.s)
                         THEN serial = StrStrip(raw.s)
                         ELSE /\ Len(serial) = 21
                              /\ SubSeq(serial, 1, 9) = Chars("NOSERIAL-")
                              /\ \A k \in 10..21 :
                                    \E h \in 1..16 : HexDigits[h] = serial[k]
\* the drives with a blank, absent, short and zero serial were parsed next
\* to one with a plausible serial
C14_Witness ==
    /\ Parsed
    /\ env.arg = DocSerials
    /\ Len(loc[Caller].result.disks) = 6
    /\ \E i \in 1..6 : loc[Caller].result.disks[i].serial = SerDiskA

\* C15: parse_lshw_json returns a summary for every document and raises for
\* none.
C15_ParseNeverRaises ==
    Returned("parse_lshw_json") => ~loc[Caller].raised

\* C16: memory_total_bytes is the size of the system memory node when one
\* has a size; else the sum of the slot sizes when a slot has a size; else
\* the bytes parsed from the ram text of the summary; else None.
C16_SystemMemoryNodes(doc) ==
    LET ns == WalkNodes(doc)
    IN  {i \in 1..Len(ns) :
            /\ ClassIs(ns[i], "memory")
            /\ Get(ns[i], "size").t = "int" /\ Get(ns[i], "size").n # 0
            /\ FieldHas(ns[i], "description", "system memory")}
C16_SizedSlots(slots) ==
    {i \in 1..Len(slots) : slots[i].size_bytes.t = "int" /\ slots[i].size_bytes.n # 0}
RECURSIVE C16_Sum(_, _)
C16_Sum(slots, is) ==
    IF is = {} THEN 0
    ELSE LET i == CHOOSE j \in is : TRUE
         IN  slots[i].size_bytes.n + C16_Sum(slots, is \ {i})
C16_FallbackOrder ==
    Parsed =>
        LET r     == loc[Caller].result
            ns    == WalkNodes(env.arg)
            sys   == C16_SystemMemoryNodes(env.arg)
            sized == C16_SizedSlots(r.memory_slots)
        IN  IF sys # {}
            THEN \E i \in sys :
                    r.memory_total_bytes = Bytes(BytesOfTiB(Get(ns[i], "size").n))
            ELSE IF sized # {}
            THEN r.memory_total_bytes =
                     Bytes(BytesOfTiB(C16_Sum(r.memory_slots, sized)))
            ELSE IF r.hw_summary.ram.t = "str"
            THEN r.memory_total_bytes = RamToBytes(r.hw_summary.ram.s)
            ELSE r.memory_total_bytes = JNull
\* neither a system memory size nor a sized slot: 16 TiB come back from the
\* text "16.0 TB"
C16_Witness ==
    /\ Parsed
    /\ env.arg = DocPlainMemory
    /\ loc[Caller].result.hw_summary.ram = JStr("16.0 TB")
    /\ loc[Caller].result.memory_total_bytes = Bytes(<<16, 0, 0, 0, 0>>)

\* C17: _looks_like_serial is false for the empty string, for blank
\* strings, for strings shorter than 6 characters after trimming and for
\* strings that, trimmed and lower-cased, are in the deny-list; it is true
\* for every other string.
C17_PlausibleSerial ==
    Returned("_looks_like_serial")
    => (loc[Caller].result <=> ~C17_Rejected(env.arg))
\* a placeholder in capitals between blanks was rejected
C17_Witness ==
    /\ Returned("_looks_like_serial")
    /\ env.arg = Chars("\tNOT SPECIFIED ")
    /\ loc[Caller].result = FALSE

\* C18: format_bytes is "0 B" for None and 0; for n > 0 the unit is the
\* one of the largest power of 1024 that is at most n, PB from 1024^5 on;
\* 1024 gives "1.0 KB" and 1024^4 gives "1.0 TB".
C18_Units == <<" B", " KB", " MB", " GB", " TB", " PB">>
C18_UnitEscalation ==
    Returned("format_bytes") =>
        LET text == loc[Caller].result
        IN  IF env.arg.t = "null" \/ env.arg.d = <<>> THEN text = "0 B"
            ELSE /\ EndsWith(text, C18_Units[IF Len(env.arg.d) > 6 THEN 6
                                             ELSE Len(env.arg.d)])
                 /\ env.arg.d = <<1, 0>> => text = "1.0 KB"
                 /\ env.arg.d = <<1, 0, 0, 0, 0>> => text = "1.0 TB"
\* 1024^4 bytes were formatted
C18_Witness ==
    /\ Returned("format_bytes")
    /\ env.arg = Bytes(<<1, 0, 0, 0, 0>>)
    /\ loc[Caller].result = "1.0 TB"

\* C20: a request is past the dedup lookup only with a valid form and a
\* matching asset id, and gets there only when the lookup found no scan;
\* scans are created by such requests alone; an ingestion writes Drives
\* only when its scan is stored, and its audit record only when every disk
\* of the scan was handled.
C20_PastLookup(p) ==
    req[p].kind = "upload" /\ pc[p] \in {"insert", "drives", "driveInsert", "touch"}
C20_Gated ==
    \A p \in Users :
        C20_PastLookup(p)
        => /\ FormValid(FileOf(p))
           /\ BundleAssetId(ParsedJson(FileOf(p))) = req[p].tag
C20_ScanStored(p) ==
    /\ loc[p].scan_id \in IndexSet(scans)
    /\ scans[loc[p].scan_id].asset = loc[p].asset
    /\ scans[loc[p].scan_id].bundle_hash = loc[p].hash
C20_StepsInOrder ==
    /\ []C20_Gated
    /\ [][/\ \A p \in Users :
               /\ (BeginsUpload(p) /\ pc'[p] = "insert")
                  => ~\E i \in IndexSet(scans) :
                         /\ scans[i].asset = AssetId(req[p].tag)
                         /\ scans[i].raw_json = FileOf(p).data
               /\ (UploadStep(p) /\ drives' # drives) => C20_ScanStored(p)
               /\ (UploadStep(p) /\ touches' # touches)
                  => (C20_ScanStored(p) /\ loc[p].i > Len(loc[p].disks))
          /\ scans' # scans
             => \E p \in Users : C20_PastLookup(p) /\ pc[p] = "insert"
          /\ drives' # drives
             => \E p \in Users : pc[p] \in {"drives", "driveInsert", "save"}]_vars
\* a scan with two disks went through every step
C20_Witness ==
    \E p \in Users :
        /\ req[p].kind = "upload" /\ req[p].outcome = "saved"
        /\ Len(scans) = 1 /\ Len(drives) = 2 /\ Len(touches) = 1
        /\ touches[1].details.drive_count = 2

(***************************************************************************)
(* Properties of the functions that walk a document                        *)
(***************************************************************************)
\* the mapping nodes at and below a value, following children that are
\* lists; a value that is no mapping has none
RECURSIVE NodesBelow(_), NodesBelowAll(_)
NodesBelow(v) ==
    IF ~IsDict(v) THEN <<>>
    ELSE <<v>> \o (IF Get(v, "children").t = "list"
                   THEN NodesBelowAll(Get(v, "children").xs) ELSE <<>>)
NodesBelowAll(xs) ==
    IF xs = <<>> THEN <<>> ELSE NodesBelow(Head(xs)) \o NodesBelowAll(Tail(xs))
Occurrences(seq, x) == Cardinality({i \in 1..Len(seq) : seq[i] = x})
\* how deep below the value a mapping node is found
RECURSIVE Depth(_), DepthAll(_)
Depth(v) ==
    IF ~IsDict(v) THEN 0
    ELSE 1 + (IF Get(v, "children").t = "list"
              THEN DepthAll(Get(v, "children").xs) ELSE 0)
DepthAll(xs) ==
    IF xs = <<>> THEN 0
    ELSE LET a == Depth(Head(xs))
             b == DepthAll(Tail(xs))
         IN  IF a > b THEN a ELSE b

\* C21: _walk_nodes yields the mapping nodes at and below a mapping root,
\* each as often as it occurs in the document and nothing else; it yields
\* nothing for a root that is no mapping, skips a child that is no mapping
\* and takes children that are no list for no children.
C21_EveryNodeOnce ==
    Returned("_walk_nodes") =>
        LET walked == loc[Caller].result
            nodes  == NodesBelow(env.arg)
        IN  /\ ~loc[Caller].raised
            /\ Len(walked) = Len(nodes)
            /\ \A i \in 1..Len(nodes) :
                  Occurrences(walked, nodes[i]) = Occurrences(nodes, nodes[i])
            /\ ~IsDict(env.arg) => walked = <<>>
\* a document six levels deep with the same disk at the third and at the
\* sixth level: nine nodes, the disk among them twice
C21_Witness ==
    /\ Returned("_walk_nodes")
    /\ Depth(env.arg) = 6
    /\ Occurrences(loc[Caller].result, DiskA) = 2
    /\ Len(loc[Caller].result) = 9

\* C22: parse_disks returns as many facts as the document has nodes of
\* class "disk", at any depth, each fact made from such a node.
C22_IsDisk(n) == Get(n, "class") = JStr("disk")
C22_OneFactPerDiskNode ==
    (Returned("parse_disks") /\ ~loc[Caller].raised) =>
        LET facts == loc[Caller].result
            disks == SelectSeq(NodesBelow(env.arg), C22_IsDisk)
        IN  /\ Len(facts) = Len(disks)
            /\ \A i \in 1..Len(facts) :
                  \E k \in 1..Len(disks) :
                      /\ facts[i].model =
                            Or(Or(Get(disks[k], "product"),
                                  Get(disks[k], "description")), JStr(""))
                      /\ Get(disks[k], "logicalname").t = "str"
                         => Get(disks[k], "logicalname") = JStr(facts[i].logicalname)
\* disks at the fifth and the sixth level and a volume at the third
C22_Witness ==
    /\ Returned("parse_disks") /\ ~loc[Caller].raised
    /\ Depth(env.arg) = 6
    /\ \E i \in 1..Len(NodesBelow(env.arg)) :
          Get(NodesBelow(env.arg)[i], "class") = JStr("volume")
    /\ Len(loc[Caller].result) = 2

\* C23: memory_slots has one entry per node that is a bank by its class,
\* id or description, and none for the system memory node; the document
\* with one system memory node of 8 units and its one bank gives one slot
\* and a total of 8 units.
C23_IsBank(n) ==
    \/ LowerField(n, "class") = Chars("bank")
    \/ Contains(LowerField(n, "id"), Chars("bank"))
    \/ Contains(LowerField(n, "description"), Chars("bank"))
C23_Example == Tree(1, <<9>>, 1)
C23_OneSlotPerBank ==
    (Returned("parse_lshw_json") /\ ~loc[Caller].raised) =>
        LET slots == loc[Caller].result.memory_slots
            banks == SelectSeq(NodesBelow(env.arg), C23_IsBank)
        IN  /\ Len(slots) = Len(banks)
            /\ \A i \in 1..Len(slots) :
                  \E k \in 1..Len(banks) :
                      slots[i].slot = Get(banks[k], "slot")
            /\ env.arg = C23_Example
               => /\ Len(slots) = 1
                  /\ slots[1].slot = JStr("DIMM 0")
                  /\ slots[1].size_bytes = JInt(8)
                  /\ loc[Caller].result.memory_total_bytes = Bytes(BytesOfTiB(8))
C23_Witness ==
    /\ Returned("parse_lshw_json") /\ ~loc[Caller].raised
    /\ env.arg = C23_Example
    /\ Len(loc[Caller].result.memory_slots) = 1

\* C24: extract_serial returns the first plausible string among the serial
\* of the root, the uuid of the root and then, node by node in walk order,
\* the serial of a system, bus, motherboard, bridge or chassis node and the
\* uuid of a system node; None when none of them is plausible.
C24_Classes ==
    {JStr("system"), JStr("bus"), JStr("motherboard"), JStr("bridge"),
     JStr("chassis")}
RECURSIVE C24_Values(_)
C24_Values(nodes) ==
    IF nodes = <<>> THEN <<>>
    ELSE (IF \E c \in C24_Classes : Get(Head(nodes), "class") = c
          THEN <<Get(Head(nodes), "serial")>> ELSE <<>>)
         \o (IF Get(Head(nodes), "class") = JStr("system")
             THEN <<Get(Head(nodes), "uuid")>> ELSE <<>>)
         \o C24_Values(Tail(nodes))
C24_Plausible(v) == v.t = "str" /\ ~C17_Rejected(v.s)
C24_FirstPlausibleCandidate ==
    Returned("extract_serial") =>
        LET all == IF IsDict(env.arg)
                   THEN <<Get(env.arg, "serial"), Get(env.arg, "uuid")>>
                        \o C24_Values(WalkNodes(env.arg))
                   ELSE <<>>
            ok  == SelectSeq(all, C24_Plausible)
        IN  /\ ~loc[Caller].raised
            /\ loc[Caller].result = IF ok = <<>> THEN JNull ELSE ok[1]
\* the root has a number for a serial and no uuid; the chassis walked
\* first gives the serial, before the uuid of the nested system
C24_Witness ==
    /\ Returned("extract_serial")
    /\ env.arg = Tree(3, <<7, 6>>, 1)
    /\ loc[Caller].result = JStr(SerChassis)

\* C25: extract_basic_hw returns None exactly when the document has no
\* memory size to count and no disk node; otherwise a dict that has the key
\* ram exactly when there is a memory size to count and the key storage
\* exactly when there is a disk node.
C25_Counted(n) ==
    /\ Get(n, "class") = JStr("memory")
    /\ Get(n, "size").t = "int" /\ Get(n, "size").n # 0
    /\ \/ Contains(LowerField(n, "description"), Chars("system memory"))
       \/ ~Contains(LowerField(n, "description"), Chars("cache"))
C25_NoneExactlyWhenEmpty ==
    (Returned("extract_basic_hw") /\ ~loc[Caller].raised) =>
        LET r     == loc[Caller].result
            nodes == NodesBelow(env.arg)
            ram   == SelectSeq(nodes, C25_Counted) # <<>>
            disk  == SelectSeq(nodes, C22_IsDisk) # <<>>
        IN  IF ~ram /\ ~disk THEN r = JNull
            ELSE /\ r.t = "obj"
                 /\ ("ram" \in DOMAIN r.kv) <=> ram
                 /\ ("storage" \in DOMAIN r.kv) <=> disk
\* a cache and a disk: the size of the cache is not counted, the dict has
\* the storage entry alone
C25_Witness ==
    /\ Returned("extract_basic_hw") /\ ~loc[Caller].raised
    /\ env.arg = Tree(1, <<10, 1>>, 1)
    /\ loc[Caller].result = JObj([storage |-> JStr("1.0 TB WDC WD10 (SN WD-A1234)")])

(***************************************************************************)
(* Properties of the stored scans and drives                               *)
(***************************************************************************)
\* C26: every HardwareScan belongs to the asset its bundle names, and its
\* bundle_hash is the hash of its raw_json.
C26_ScanBelongsToNamedAsset ==
    \A i \in IndexSet(scans) :
        /\ scans[i].asset \in IndexSet(assets)
        /\ PyStr(Get(Get(scans[i].raw_json, "intake"), "asset_id"))
              = assets[scans[i].asset].asset_tag
        /\ scans[i].bundle_hash = [sha256 |-> scans[i].raw_json]
\* the bundle that names asset 7 by a number is stored under asset "7", and
\* a bundle that names another asset was rejected there
C26_Witness ==
    /\ \E i \in IndexSet(scans) :
          /\ assets[scans[i].asset].asset_tag = "7"
          /\ Get(Get(scans[i].raw_json, "intake"), "asset_id") = JInt(7)
    /\ \E p \in Users :
          /\ req[p].kind = "upload" /\ req[p].outcome = "rejected"
          /\ req[p].tag = "7"

\* C27: the save of a drive status update leaves serial, logicalname,
\* capacity_bytes, model and source of every Drive, and every field of the
\* other Drives, as they are in the table when it writes.
C27_StatusUpdateKeepsScanFields ==
    [][\A p \in Users :
          (pc[p] = "save" /\ pc'[p] = "idle")
          => \A i \in IndexSet(drives) :
                /\ drives'[i].asset = drives[i].asset
                /\ drives'[i].serial = drives[i].serial
                /\ drives'[i].logicalname = drives[i].logicalname
                /\ drives'[i].capacity_bytes = drives[i].capacity_bytes
                /\ drives'[i].model = drives[i].model
                /\ drives'[i].source = drives[i].source
                /\ i # loc[p].id => drives'[i] = drives[i]]_vars

\* C28: the memory facts asset_detail shows for the latest scan of an asset
\* are those parse_lshw_json gives for sources.lshw of that scan.
C28_DisplayIsIngestionParse ==
    \A p \in Users :
        (req[p].kind = "detail" /\ req[p].outcome = "shown" /\ req[p].scan # 0
         /\ req[p].scan = LatestScan(AssetId(req[p].tag)))
        => LET lshw == Get(Get(scans[req[p].scan].raw_json, "sources"), "lshw")
           IN  /\ req[p].memory_slots = Summary(lshw).memory_slots
               /\ req[p].memory_total_bytes = Summary(lshw).memory_total_bytes

\* C29: a step never removes a Drive or changes its asset or serial, and
\* the upsert of a disk leaves every Drive with another (asset, serial) as
\* it was.
C29_DrivesOnlyGrow ==
    [][/\ Len(drives') >= Len(drives)
       /\ \A i \in IndexSet(drives) :
             /\ drives'[i].asset = drives[i].asset
             /\ drives'[i].serial = drives[i].serial
       /\ \A p \in Users :
             (UploadStep(p) /\ drives' # drives)
             => \A i \in IndexSet(drives) :
                   (drives[i].asset # loc[p].asset
                    \/ drives[i].serial # loc[p].disks[loc[p].i].serial)
                   => drives'[i] = drives[i]]_vars
\* the second scan of the asset has one disk; the serial-less drive of the
\* first scan is still there
C29_Witness ==
    /\ Len(scans) = 2 /\ Len(touches) = 2
    /\ scans[1].asset = scans[2].asset
    /\ Len(DiskNodes(WalkNodes(C13_Lshw(scans[2])))) = 1
    /\ \E i \in IndexSet(drives) :
          drives[i].asset = scans[1].asset /\ C13_IsSynthetic(drives[i].serial)

\* C30: when the first scan of an asset is ingested whole, the asset has one
\* Drive per distinct serial among the disk facts, each holding the fields
\* of the last fact with that serial, and the audit record counts the facts.
C30_LastWith(disks, serial) ==
    CHOOSE k \in 1..Len(disks) :
        /\ disks[k].serial = serial
        /\ \A j \in (k + 1)..Len(disks) : disks[j].serial # serial
C30_OneDrivePerDistinctSerial ==
    [][\A p \in Users :
          (CompletesUpload(p)
           /\ Cardinality({i \in IndexSet(scans) : scans[i].asset = loc[p].asset}) = 1)
          => LET disks == loc[p].disks
                 own   == {i \in IndexSet(drives) : drives[i].asset = loc[p].asset}
             IN  /\ Cardinality(own)
                       = Cardinality({disks[k].serial : k \in 1..Len(disks)})
                 /\ \A i \in own :
                       LET d == disks[C30_LastWith(disks, drives[i].serial)]
                       IN  /\ drives[i].logicalname = d.logicalname
                           /\ drives[i].capacity_bytes = d.size_bytes
                           /\ drives[i].model = PyStr(d.model)
                 /\ touches'[Len(touches')].details.drive_count = Len(disks)
                 /\ Len(DiskNodes(WalkNodes(C13_Lshw(scans[loc[p].scan_id]))))
                       = Len(disks)]_vars
\* the scan lists four disk nodes; the asset has two Drives and the audit
\* record counts four
C30_Witness ==
    /\ Len(scans) = 1
    /\ Len(drives) = 2
    /\ Len(touches) = 1
    /\ touches[1].details.drive_count = 4
    /\ \E i \in IndexSet(drives) :
          drives[i].serial = SerDiskA /\ drives[i].logicalname = "/dev/sda"
    /\ \E i \in IndexSet(drives) : C13_IsSynthetic(drives[i].serial)
====
